---- MODULE Spec2Model ----
(***************************************************************************)
(* Model of the audiobook pipeline of All-About-MCP.                       *)
(*                                                                         *)
(*   SpecChunk  chunk_text of src/src/audiobook.py, applied to every text  *)
(*              over a four-character alphabet and every small limit.      *)
(*   SpecGen    the per-chunk synthesis loop, the concatenation and the    *)
(*              cleanup of generate_audiobook of src/src/audiobook.py.     *)
(*   SpecMain   main of src/src/main.py: flags, branches, exit codes and   *)
(*              the completion summary.                                    *)
(*   SpecMd     markdown_to_text of src/scripts/generate_audiobook.py.     *)
(*   SpecSentenceChunk  chunk_text of src/src/audiobook_generator.py.      *)
(*   SpecChapters       main of src/src/audiobook_generator.py.            *)
(*   SpecTts    format_for_tts_simple of src/src/audiobook.py.             *)
(*   SpecPreamble       strip_preamble of src/src/pipeline.py.             *)
(*                                                                         *)
(* A Python str is a sequence of one-character strings.                    *)
(***************************************************************************)
EXTENDS Integers, Sequences, FiniteSets, TLC

VARIABLES
    text,          \* chunk_text: the argument text
    max_length,    \* chunk_text: the argument max_length
    chunks,        \* chunk_text: the returned list
    c_pc,          \* chunk_text: "idle" | "call" | "returned" | "raised"
    g_pc,          \* generate_audiobook: position in the function
    g_n,           \* generate_audiobook: len(chunks)
    g_i,           \* generate_audiobook: loop index i
    audio_files,   \* generate_audiobook: the list audio_files (chunk indices)
    temp_dir,      \* the files present in AUDIO_DIR/temp (chunk indices)
    output_file,   \* TRUE when output_path has been written
    trace,         \* the external calls made so far, in order
    m_args,        \* main: the parsed command line flags
    m_env,         \* main: what validate_config and the file checks find
    m_pc,          \* main: position in the function
    m_todo,        \* main: the phases the chosen branch still has to call
    m_ran,         \* main: the phases that were called and returned
    m_out,         \* main: the lines printed by the completion summary
    m_exit,        \* main: the exit status of the process, NoExit while running
    m_cause,       \* main: why the process ended
    md_in,         \* markdown_to_text: the argument markdown_text of the first call
    md_text,       \* markdown_to_text: the local variable text
    md_out,        \* markdown_to_text: the texts returned so far, one per call
    md_pc,         \* markdown_to_text: the statement of Program it is at, 0 outside
    ch_n,          \* audiobook_generator.main: len(chapters)
    ch_chunks,     \* the number of chunks chunk_text gives for each chapter
    ch_pc,         \* audiobook_generator.main: position in the function
    ch_c,          \* audiobook_generator.main: the chapter of the loop, 1..ch_n
    ch_i,          \* audiobook_generator.main: loop index i of the chunk loop
    chunk_audio_files,   \* the list chunk_audio_files (chunk indices)
    all_chapter_audios,  \* the list all_chapter_audios (chapter numbers)
    ch_files,      \* the files present in AUDIO_OUTPUT_DIR
    ch_calls,      \* the calls of generate_audio_chunk so far, in order
    ch_written,    \* the files ffmpeg has written in this run
    ch_removed,    \* the chapters whose chunk files have been unlinked
    ch_printed,    \* the messages printed so far
    t_in,          \* format_for_tts_simple: the argument markdown_content
    t_text,        \* format_for_tts_simple: the local variable text
    t_pc,          \* format_for_tts_simple: the statement it is at, 0 outside
    p_in,          \* strip_preamble: the argument content of the first call
    p_out,         \* strip_preamble: the strings returned so far, one per call
    p_pc           \* strip_preamble: "idle" | "call" | "returned"

vars == <<text, max_length, chunks, c_pc,
          g_pc, g_n, g_i, audio_files, temp_dir, output_file, trace,
          m_args, m_env, m_pc, m_todo, m_ran, m_out, m_exit, m_cause,
          md_in, md_text, md_out, md_pc,
          ch_n, ch_chunks, ch_pc, ch_c, ch_i, chunk_audio_files, all_chapter_audios,
          ch_files, ch_calls, ch_written, ch_removed, ch_printed,
          t_in, t_text, t_pc,
          p_in, p_out, p_pc>>

chunkVars == <<text, max_length, chunks, c_pc>>
genVars == <<g_pc, g_n, g_i, audio_files, temp_dir, output_file, trace>>
mainVars == <<m_args, m_env, m_pc, m_todo, m_ran, m_out, m_exit, m_cause>>
mdVars == <<md_in, md_text, md_out, md_pc>>
chapVars == <<ch_n, ch_chunks, ch_pc, ch_c, ch_i, chunk_audio_files, all_chapter_audios,
              ch_files, ch_calls, ch_written, ch_removed, ch_printed>>
ttsVars == <<t_in, t_text, t_pc>>
preVars == <<p_in, p_out, p_pc>>

(***************************************************************************)
(* Bounds of the model.                                                    *)
(***************************************************************************)
MaxTextLen == 7
MaxLimit == 3
MaxChunks == 3

\* The limits tried: zero (an invalid configuration) and the small positive ones.
Limits == 0..MaxLimit

\* A letter, a sentence terminator, a space and a newline.
Alphabet == {"a", ".", " ", "\n"}

Texts == UNION {[1..k -> Alphabet] : k \in 0..MaxTextLen}

(***************************************************************************)
(* Python string primitives.                                               *)
(***************************************************************************)
SetMin(S) == CHOOSE x \in S : \A y \in S : x <= y
SetMax(S) == CHOOSE x \in S : \A y \in S : x >= y

\* str.isspace() / the regex class \s, on the alphabet
IsSpace(c) == c \in {" ", "\n"}

\* the regex class [.!?]
IsTerminator(c) == c \in {".", "!", "?"}

\* str.strip()
Strip(s) ==
    LET keep == {i \in 1..Len(s) : ~IsSpace(s[i])}
    IN  IF keep = {} THEN <<>> ELSE SubSeq(s, SetMin(keep), SetMax(keep))

\* text.split('\n\n'): leftmost, non-overlapping separators
RECURSIVE SplitParagraphs(_)
SplitParagraphs(s) ==
    LET hits == {i \in 1..(Len(s) - 1) : s[i] = "\n" /\ s[i + 1] = "\n"}
    IN  IF hits = {} THEN <<s>>
        ELSE LET i == SetMin(hits)
             IN  <<SubSeq(s, 1, i - 1)>> \o SplitParagraphs(SubSeq(s, i + 2, Len(s)))

\* re.split(r'(?<=[.!?])\s+', s): a separator is a maximal run of whitespace
\* that starts right after a terminator
RECURSIVE SplitSentences(_)
SplitSentences(s) ==
    LET hits == {i \in 2..Len(s) : IsSpace(s[i]) /\ IsTerminator(s[i - 1])}
    IN  IF hits = {} THEN <<s>>
        ELSE LET i == SetMin(hits)
                 j == SetMin({k \in i..Len(s) : k = Len(s) \/ ~IsSpace(s[k + 1])})
             IN  <<SubSeq(s, 1, i - 1)>> \o SplitSentences(SubSeq(s, j + 1, Len(s)))

(***************************************************************************)
(* chunk_text.  The loop state is [chunks, cur]: the list chunks and the   *)
(* buffer current_chunk.                                                   *)
(***************************************************************************)
\* the flush of lines 161-162 and 167-168
FlushIfAny(st) ==
    IF st.cur # <<>> THEN Append(st.chunks, Strip(st.cur)) ELSE st.chunks

\* mutant: the separator is left out of the length test
AddSentence_NoSeparator(st, sentence, n) ==
    IF Len(st.cur) + Len(sentence) <= n
    THEN [chunks |-> st.chunks,
          cur |-> IF st.cur # <<>> THEN st.cur \o <<" ">> \o sentence ELSE sentence]
    ELSE [chunks |-> FlushIfAny(st), cur |-> sentence]

\* mutant: a sentence that does not fit is cut to the limit
AddSentence_Truncating(st, sentence, n) ==
    IF Len(st.cur) + Len(sentence) + 1 <= n
    THEN [chunks |-> st.chunks,
          cur |-> IF st.cur # <<>> THEN st.cur \o <<" ">> \o sentence ELSE sentence]
    ELSE [chunks |-> FlushIfAny(st),
          cur |-> SubSeq(sentence, 1, IF n < Len(sentence) THEN n ELSE Len(sentence))]

\* mutant: the buffer is appended without the test that it is non-empty
AddSentence_UnguardedFlush(st, sentence, n) ==
    IF Len(st.cur) + Len(sentence) + 1 <= n
    THEN [chunks |-> st.chunks,
          cur |-> IF st.cur # <<>> THEN st.cur \o <<" ">> \o sentence ELSE sentence]
    ELSE [chunks |-> Append(st.chunks, Strip(st.cur)), cur |-> sentence]

\* one iteration of the loop over sentences, lines 157-163
\* mutant: the length test is strict, so a sentence that fits exactly is
\* pushed to the next chunk
AddSentence_StrictTest(st, sentence, n) ==
    IF Len(st.cur) + Len(sentence) + 1 < n
    THEN [chunks |-> st.chunks,
          cur |-> IF st.cur # <<>> THEN st.cur \o <<" ">> \o sentence ELSE sentence]
    ELSE [chunks |-> FlushIfAny(st), cur |-> sentence]

AddSentence(st, sentence, n) ==
    IF Len(st.cur) + Len(sentence) + 1 <= n
    THEN [chunks |-> st.chunks,
          cur |-> IF st.cur # <<>> THEN st.cur \o <<" ">> \o sentence ELSE sentence]
    ELSE [chunks |-> FlushIfAny(st), cur |-> sentence]

\* the loop over sentences, lines 157-163
RECURSIVE AddSentences(_, _, _)
AddSentences(st, sentences, n) ==
    IF sentences = <<>> THEN st
    ELSE AddSentences(AddSentence(st, Head(sentences), n), Tail(sentences), n)

\* one iteration of the loop over paragraphs, lines 149-169
AddParagraph(st, raw, n) ==
    LET para == Strip(raw)
    IN  IF para = <<>> THEN st
        ELSE IF Len(para) > n THEN AddSentences(st, SplitSentences(para), n)
        ELSE IF Len(st.cur) + Len(para) + 2 <= n
        THEN [chunks |-> st.chunks,
              cur |-> IF st.cur # <<>> THEN st.cur \o <<"\n", "\n">> \o para ELSE para]
        ELSE [chunks |-> FlushIfAny(st), cur |-> para]

\* the loop over paragraphs, lines 149-169
RECURSIVE AddParagraphs(_, _, _)
AddParagraphs(st, paragraphs, n) ==
    IF paragraphs = <<>> THEN st
    ELSE AddParagraphs(AddParagraph(st, Head(paragraphs), n), Tail(paragraphs), n)

\* mutant: the trailing buffer is not emitted
FinalFlush_Dropped(st) == st.chunks

\* mutant: the trailing buffer is emitted even when it is empty
FinalFlush_Unguarded(st) == Append(st.chunks, Strip(st.cur))

\* lines 171-172
FinalFlush(st) ==
    IF st.cur # <<>> THEN Append(st.chunks, Strip(st.cur)) ELSE st.chunks

\* lines 145-174
chunk_text(t, n) ==
    FinalFlush(AddParagraphs([chunks |-> <<>>, cur |-> <<>>], SplitParagraphs(t), n))

\* chunk_text has no raise statement and no check of max_length: every call
\* on a str returns (lines 134-174)
chunk_text_raises(t, n) == FALSE

(***************************************************************************)
(* SpecChunk: one call of chunk_text on an arbitrary text and limit.       *)
(***************************************************************************)
GenIdle ==
    /\ g_pc = "idle"
    /\ g_n = 0
    /\ g_i = 0
    /\ audio_files = <<>>
    /\ temp_dir = {}
    /\ output_file = FALSE
    /\ trace = <<>>

\* exit status of a process that has not ended
NoExit == -1

MainIdle ==
    /\ m_args = {}
    /\ m_env = {}
    /\ m_pc = "idle"
    /\ m_todo = <<>>
    /\ m_ran = {}
    /\ m_out = {}
    /\ m_exit = NoExit
    /\ m_cause = "none"

MdIdle ==
    /\ md_in = <<>>
    /\ md_text = <<>>
    /\ md_out = <<>>
    /\ md_pc = 0

ChapIdle ==
    /\ ch_n = 0
    /\ ch_chunks = <<>>
    /\ ch_pc = "idle"
    /\ ch_c = 0
    /\ ch_i = 0
    /\ chunk_audio_files = <<>>
    /\ all_chapter_audios = <<>>
    /\ ch_files = {}
    /\ ch_calls = <<>>
    /\ ch_written = {}
    /\ ch_removed = {}
    /\ ch_printed = {}

TtsIdle ==
    /\ t_in = <<>>
    /\ t_text = <<>>
    /\ t_pc = 0

PreIdle ==
    /\ p_in = <<>>
    /\ p_out = <<>>
    /\ p_pc = "idle"

InitChunk ==
    /\ text \in Texts
    /\ max_length \in Limits
    /\ chunks = <<>>
    /\ c_pc = "call"
    /\ GenIdle
    /\ MainIdle
    /\ MdIdle
    /\ ChapIdle
    /\ TtsIdle
    /\ PreIdle

CallChunkText ==
    /\ c_pc = "call"
    /\ IF chunk_text_raises(text, max_length)
       THEN /\ c_pc' = "raised"
            /\ chunks' = chunks
       ELSE /\ c_pc' = "returned"
            /\ chunks' = chunk_text(text, max_length)
    /\ UNCHANGED <<text, max_length>>
    /\ UNCHANGED <<genVars, mainVars, mdVars, chapVars, ttsVars, preVars>>

NextChunk == CallChunkText

SpecChunk == InitChunk /\ [][NextChunk]_vars

(***************************************************************************)
(* generate_audiobook, from the loop over the chunks on.  A chunk is named *)
(* by its index i; temp_dir holds i when temp/chunk_<i>.wav exists.        *)
(* trace records the calls that leave the process: <<"synth", i>> for      *)
(* replicate.run on chunk i, <<"download", i>> for requests.get,           *)
(* <<"sleep", i>> for time.sleep(1) in iteration i, <<"error", i>> for the  *)
(* line printed by the except clause and <<"concat", fs>> for the call of  *)
(* concatenate_audio_files on the list fs.                                 *)
(***************************************************************************)
\* MAX_CHUNK_LENGTH, the limit generate_audiobook chunks with
MAX_CHUNK_LENGTH == 2000

ChunkIdle ==
    /\ text = <<>>
    /\ max_length = MAX_CHUNK_LENGTH
    /\ chunks = <<>>
    /\ c_pc = "idle"

\* lines 287-293: chunks is computed, audio_files is empty, temp exists
InitGen ==
    /\ ChunkIdle
    /\ MainIdle
    /\ MdIdle
    /\ ChapIdle
    /\ TtsIdle
    /\ PreIdle
    /\ g_pc = "loop"
    /\ g_n \in 0..MaxChunks
    /\ g_i = 0
    /\ audio_files = <<>>
    /\ temp_dir = {}
    /\ output_file = FALSE
    /\ trace = <<>>

InLoop == g_pc = "loop" /\ g_i < g_n

\* mutant: the exception of the synthesis call leaves the loop
SynthFails_Uncaught ==
    /\ InLoop
    /\ trace' = Append(trace, <<"synth", g_i>>)
    /\ g_pc' = "Exception"
    /\ UNCHANGED <<g_n, g_i, audio_files, temp_dir, output_file>>
    /\ UNCHANGED <<chunkVars, mainVars, mdVars, chapVars, ttsVars, preVars>>

\* lines 298-299, 310-312: replicate.run raises; caught, next chunk
SynthFails ==
    /\ InLoop
    /\ trace' = trace \o <<<<"synth", g_i>>, <<"error", g_i>>>>
    /\ g_i' = g_i + 1
    /\ UNCHANGED <<g_pc, g_n, audio_files, temp_dir, output_file>>
    /\ UNCHANGED <<chunkVars, mainVars, mdVars, chapVars, ttsVars, preVars>>

\* lines 215-216, 310-312: requests.get or raise_for_status raises before the
\* temp file is opened; caught, next chunk
DownloadFailsBeforeOpen ==
    /\ InLoop
    /\ trace' = trace \o <<<<"synth", g_i>>, <<"download", g_i>>, <<"error", g_i>>>>
    /\ g_i' = g_i + 1
    /\ UNCHANGED <<g_pc, g_n, audio_files, temp_dir, output_file>>
    /\ UNCHANGED <<chunkVars, mainVars, mdVars, chapVars, ttsVars, preVars>>

\* mutant: the temp file of a failed download is appended to audio_files
DownloadFailsAfterOpen_Appended ==
    /\ InLoop
    /\ trace' = trace \o <<<<"synth", g_i>>, <<"download", g_i>>, <<"error", g_i>>>>
    /\ temp_dir' = temp_dir \cup {g_i}
    /\ audio_files' = Append(audio_files, g_i)
    /\ g_i' = g_i + 1
    /\ UNCHANGED <<g_pc, g_n, output_file>>
    /\ UNCHANGED <<chunkVars, mainVars, mdVars, chapVars, ttsVars, preVars>>

\* lines 218-220, 310-312: open(output_path, 'wb') has created the temp file
\* when iter_content or write raises; caught, next chunk; the file stays and
\* is not in audio_files
DownloadFailsAfterOpen ==
    /\ InLoop
    /\ trace' = trace \o <<<<"synth", g_i>>, <<"download", g_i>>, <<"error", g_i>>>>
    /\ temp_dir' = temp_dir \cup {g_i}
    /\ g_i' = g_i + 1
    /\ UNCHANGED <<g_pc, g_n, audio_files, output_file>>
    /\ UNCHANGED <<chunkVars, mainVars, mdVars, chapVars, ttsVars, preVars>>

\* lines 299-308: synthesis and download succeed; the pause follows unless
\* this was the last chunk
ChunkSucceeds ==
    /\ InLoop
    /\ trace' = trace \o <<<<"synth", g_i>>, <<"download", g_i>>>>
                      \o (IF g_i < g_n - 1 THEN <<<<"sleep", g_i>>>> ELSE <<>>)
    /\ temp_dir' = temp_dir \cup {g_i}
    /\ audio_files' = Append(audio_files, g_i)
    /\ g_i' = g_i + 1
    /\ UNCHANGED <<g_pc, g_n, output_file>>
    /\ UNCHANGED <<chunkVars, mainVars, mdVars, chapVars, ttsVars, preVars>>

\* mutant: the test for an empty audio_files is missing
CheckAudioFiles_NoCheck ==
    /\ g_pc = "loop"
    /\ g_i = g_n
    /\ g_pc' = "concat"
    /\ UNCHANGED <<g_n, g_i, audio_files, temp_dir, output_file, trace>>
    /\ UNCHANGED <<chunkVars, mainVars, mdVars, chapVars, ttsVars, preVars>>

\* lines 314-315: after the loop, RuntimeError when no chunk succeeded
CheckAudioFiles ==
    /\ g_pc = "loop"
    /\ g_i = g_n
    /\ g_pc' = IF audio_files = <<>> THEN "RuntimeError" ELSE "concat"
    /\ UNCHANGED <<g_n, g_i, audio_files, temp_dir, output_file, trace>>
    /\ UNCHANGED <<chunkVars, mainVars, mdVars, chapVars, ttsVars, preVars>>

\* lines 317-319, 225-243: the files of audio_files are joined and exported
Concatenate ==
    /\ g_pc = "concat"
    /\ trace' = Append(trace, <<"concat", audio_files>>)
    /\ output_file' = TRUE
    /\ g_pc' = "cleanup"
    /\ UNCHANGED <<g_n, g_i, audio_files, temp_dir>>
    /\ UNCHANGED <<chunkVars, mainVars, mdVars, chapVars, ttsVars, preVars>>

Range(f) == {f[k] : k \in DOMAIN f}

\* lines 321-327: every file of audio_files is unlinked, then temp_dir.rmdir(),
\* which raises OSError when the directory still holds a file
Cleanup ==
    /\ g_pc = "cleanup"
    /\ temp_dir' = temp_dir \ Range(audio_files)
    /\ g_pc' = IF temp_dir' = {} THEN "returned" ELSE "OSError"
    /\ UNCHANGED <<g_n, g_i, audio_files, output_file, trace>>
    /\ UNCHANGED <<chunkVars, mainVars, mdVars, chapVars, ttsVars, preVars>>

NextGen ==
    \/ SynthFails
    \/ DownloadFailsBeforeOpen
    \/ DownloadFailsAfterOpen
    \/ ChunkSucceeds
    \/ CheckAudioFiles
    \/ Concatenate
    \/ Cleanup

SpecGen == InitGen /\ [][NextGen]_vars

(***************************************************************************)
(* Vocabulary of the chunker's properties.                                 *)
(***************************************************************************)
Returned == c_pc = "returned"

IsBlank(s) == Strip(s) = <<>>

RECURSIVE StripEach(_)
StripEach(ss) ==
    IF ss = <<>> THEN <<>> ELSE <<Strip(Head(ss))>> \o StripEach(Tail(ss))

NonEmpty(s) == s # <<>>

\* the paragraphs the loop does not skip, stripped, in document order
Paragraphs(t) == SelectSeq(StripEach(SplitParagraphs(t)), NonEmpty)

RECURSIVE SentencesOf(_)
SentencesOf(paras) ==
    IF paras = <<>> THEN <<>>
    ELSE SplitSentences(Head(paras)) \o SentencesOf(Tail(paras))

\* the sentences of the input, in document order
InputSentences(t) == SentencesOf(Paragraphs(t))

RECURSIVE Join(_, _)
Join(ss, sep) ==
    IF ss = <<>> THEN <<>>
    ELSE IF Len(ss) = 1 THEN Head(ss)
    ELSE Head(ss) \o sep \o Join(Tail(ss), sep)

\* str.split(): the maximal runs of non-whitespace, in order
RECURSIVE Words(_)
Words(s) ==
    LET t == Strip(s)
        sp == {i \in 1..Len(t) : IsSpace(t[i])}
    IN  IF t = <<>> THEN <<>>
        ELSE IF sp = {} THEN <<t>>
        ELSE <<SubSeq(t, 1, SetMin(sp) - 1)>> \o Words(SubSeq(t, SetMin(sp), Len(t)))

IsPrefix(p, s) == Len(p) <= Len(s) /\ SubSeq(s, 1, Len(p)) = p

LStrip(s) ==
    LET keep == {i \in 1..Len(s) : ~IsSpace(s[i])}
    IN  IF keep = {} THEN <<>> ELSE SubSeq(s, SetMin(keep), Len(s))

\* Reads the sentences sents off the chunks cs from left to right; rest is the
\* unread part of the chunk being read and fresh says that nothing of that
\* chunk has been read yet.  TRUE iff every sentence stands verbatim, bounded
\* by whitespace or the chunk's ends, in one chunk, a sentence longer than n
\* is a whole chunk, and the chunks hold nothing but the sentences.
RECURSIVE SentencesWhole(_, _, _, _, _)
SentencesWhole(rest, fresh, cs, sents, n) ==
    IF rest = <<>>
    THEN IF cs = <<>> THEN sents = <<>>
         ELSE Head(cs) # <<>> /\ SentencesWhole(Head(cs), TRUE, Tail(cs), sents, n)
    ELSE /\ sents # <<>>
         /\ LET s == Head(sents)
                after == SubSeq(rest, Len(s) + 1, Len(rest))
            IN  /\ s # <<>>
                /\ IsPrefix(s, rest)
                /\ after = <<>> \/ IsSpace(after[1])
                /\ Len(s) > n => (fresh /\ after = <<>>)
                /\ SentencesWhole(LStrip(after), FALSE, cs, Tail(sents), n)

(***************************************************************************)
(* C1: for max_length > 0, every chunk returned by chunk_text is at most   *)
(* max_length long, except a chunk that is exactly one sentence of the     *)
(* input whose own length exceeds max_length.                              *)
(***************************************************************************)
C1_ChunkLengthBound ==
    (Returned /\ max_length > 0) =>
        \A k \in DOMAIN chunks :
            \/ Len(chunks[k]) <= max_length
            \/ \E j \in DOMAIN InputSentences(text) :
                   /\ InputSentences(text)[j] = chunks[k]
                   /\ Len(InputSentences(text)[j]) > max_length

\* an oversized single-sentence chunk next to a chunk filled to the limit
C1_Witness ==
    /\ Returned /\ max_length > 0
    /\ \E k \in DOMAIN chunks : Len(chunks[k]) > max_length
    /\ \E k \in DOMAIN chunks : Len(chunks[k]) = max_length

(***************************************************************************)
(* C2: for max_length > 0, the chunks joined in output order by a single   *)
(* separator hold exactly the words of the input, in document order, none  *)
(* lost, duplicated or reordered; the last chunk ends with the last word   *)
(* of the input (the trailing buffer is emitted).                          *)
(***************************************************************************)
C2_LosslessInOrder ==
    (Returned /\ max_length > 0) =>
        /\ Words(Join(chunks, <<" ">>)) = Words(text)
        /\ ~IsBlank(text) =>
               /\ chunks # <<>>
               /\ Words(chunks[Len(chunks)]) # <<>>
               /\ Words(chunks[Len(chunks)])[Len(Words(chunks[Len(chunks)]))]
                      = Words(text)[Len(Words(text))]

\* several chunks, one of them holding two words
C2_Witness ==
    /\ Returned /\ max_length > 0
    /\ Len(chunks) >= 2
    /\ \E k \in DOMAIN chunks : Len(Words(chunks[k])) >= 2
    /\ Len(Words(text)) >= 3

(***************************************************************************)
(* C3: chunk_text called with max_length <= 0 is rejected before any chunk *)
(* is produced: it fails instead of returning chunks.                      *)
(***************************************************************************)
C3_RejectsNonPositiveLimit ==
    (c_pc # "call" /\ max_length <= 0) => (c_pc = "raised" /\ chunks = <<>>)

(***************************************************************************)
(* C4: no sentence is truncated or split across two chunks: every sentence *)
(* of the input stands whole in exactly one chunk, in order, and a         *)
(* sentence longer than max_length is a chunk of its own.                  *)
(***************************************************************************)
C4_SentencesWhole ==
    Returned => SentencesWhole(<<>>, TRUE, chunks, InputSentences(text), max_length)

\* three sentences that cannot share a chunk give three chunks, as in
\* chunk("A. B. C.", 3)
C4_Witness ==
    /\ Returned
    /\ Len(InputSentences(text)) = 3
    /\ Len(Paragraphs(text)) = 1
    /\ chunks = InputSentences(text)
    /\ \A k \in DOMAIN chunks : Len(chunks[k]) < max_length

(***************************************************************************)
(* C5: for every text and limit no chunk is empty or whitespace only, and  *)
(* paragraphs that are empty or pure whitespace contribute nothing: the    *)
(* result is that of the text without them.                                *)
(***************************************************************************)
C5_NoEmptyChunk ==
    Returned =>
        /\ \A k \in DOMAIN chunks : ~IsBlank(chunks[k])
        /\ chunks = chunk_text(Join(Paragraphs(text), <<"\n", "\n">>), max_length)

\* a whitespace-only paragraph between two paragraphs with content
C5_Witness ==
    /\ Returned
    /\ Len(chunks) >= 1
    /\ \E k \in 2..(Len(SplitParagraphs(text)) - 1) :
           /\ SplitParagraphs(text)[k] # <<>>
           /\ IsBlank(SplitParagraphs(text)[k])
           /\ ~IsBlank(SplitParagraphs(text)[k - 1])
           /\ ~IsBlank(SplitParagraphs(text)[k + 1])

(***************************************************************************)
(* C6: chunk_text returns the empty sequence if and only if the input has  *)
(* no non-whitespace character.                                            *)
(***************************************************************************)
C6_EmptyIffBlank ==
    Returned => (chunks = <<>> <=> IsBlank(text))

\* a non-empty text of whitespace only, chunked to nothing
C6_Witness ==
    /\ Returned
    /\ text # <<>>
    /\ IsBlank(text)
    /\ chunks = <<>>

(***************************************************************************)
(* Vocabulary of the generator's properties.                               *)
(***************************************************************************)
\* the loop over the chunks has been left
LoopLeft == g_pc \notin {"idle", "loop"}

\* generate_audiobook has ended, by return or by an exception
Ended == g_pc \in {"returned", "RuntimeError", "OSError", "Exception"}

SynthCalls(i) == {p \in DOMAIN trace : trace[p] = <<"synth", i>>}

AllSynthCalls == {p \in DOMAIN trace : trace[p][1] = "synth"}

ConcatCalled == \E p \in DOMAIN trace : trace[p][1] = "concat"

\* chunk i was attempted and its audio is not in audio_files
Failed(i) == i < g_i /\ i \notin Range(audio_files)

(***************************************************************************)
(* C7: a failure of the synthesis or download step for chunk i is caught   *)
(* and the chunk is skipped; the loop is left only after the last chunk,   *)
(* and every chunk has had exactly one synthesis attempt by then, whatever *)
(* failed before.                                                          *)
(***************************************************************************)
C7_EveryChunkAttemptedOnce ==
    /\ g_pc = "loop" =>
           \A i \in 0..(g_n - 1) :
               Cardinality(SynthCalls(i)) = IF i < g_i THEN 1 ELSE 0
    /\ LoopLeft =>
           /\ g_i = g_n
           /\ \A i \in 0..(g_n - 1) : Cardinality(SynthCalls(i)) = 1

\* the first chunk failed and a later chunk was still synthesized
C7_Witness ==
    /\ LoopLeft
    /\ g_n >= 3
    /\ Failed(0)
    /\ Failed(1)
    /\ 2 \in Range(audio_files)

(***************************************************************************)
(* C8: when synthesis has failed for every chunk, generate_audiobook stops *)
(* with RuntimeError, the concatenation is never invoked and no output     *)
(* file is written.                                                        *)
(***************************************************************************)
C8_TotalFailureIsFatal ==
    (LoopLeft /\ audio_files = <<>>) =>
        /\ g_pc = "RuntimeError"
        /\ ~ConcatCalled
        /\ ~output_file

\* several chunks, all attempted, all failed
C8_Witness ==
    /\ g_pc = "RuntimeError"
    /\ g_n >= 2
    /\ \A i \in 0..(g_n - 1) : Failed(i)

(***************************************************************************)
(* C9: whenever at least one chunk succeeded, generate_audiobook           *)
(* concatenates, completes its cleanup and returns the output path without *)
(* raising, whatever step failed for the other chunks.                     *)
(***************************************************************************)
C9_PartialFailureReturns ==
    (Ended /\ audio_files # <<>>) => (g_pc = "returned" /\ output_file)

(***************************************************************************)
(* C10: between every two consecutive calls of the synthesis service there *)
(* is a pause, whether the earlier call succeeded or failed.               *)
(***************************************************************************)
C10_PauseBetweenCalls ==
    \A p, q \in AllSynthCalls :
        p < q => \E r \in (p + 1)..(q - 1) : trace[r][1] = "sleep"

(***************************************************************************)
(* C11: the list handed to the concatenation is the successfully           *)
(* synthesized chunks in strictly increasing chunk index: nothing          *)
(* reordered or duplicated, no failed chunk included.                      *)
(***************************************************************************)
\* the chunks attempted without the except clause being entered
Succeeded ==
    {i \in 0..(g_i - 1) : ~\E p \in DOMAIN trace : trace[p] = <<"error", i>>}

StrictlyIncreasing(fs) == \A j, k \in DOMAIN fs : j < k => fs[j] < fs[k]

C11_ConcatInChunkOrder ==
    /\ StrictlyIncreasing(audio_files)
    /\ Range(audio_files) = Succeeded
    /\ \A p \in DOMAIN trace :
           trace[p][1] = "concat" =>
               /\ StrictlyIncreasing(trace[p][2])
               /\ Range(trace[p][2]) = Succeeded

\* the concatenation was handed chunks 0 and 2 after chunk 1 had failed
C11_Witness ==
    /\ \E p \in DOMAIN trace : trace[p] = <<"concat", <<0, 2>>>>
    /\ Failed(1)

(***************************************************************************)
(* C20: a run in which some or all chunks failed reports, before it ends,  *)
(* how many chunks succeeded and how many were skipped.                    *)
(***************************************************************************)
C20_FailedRunReportsCounts ==
    (Ended /\ \E i \in 0..(g_n - 1) : Failed(i)) =>
        \E p \in DOMAIN trace :
            trace[p] = <<"report", Len(audio_files), g_n - Len(audio_files)>>

(***************************************************************************)
(* main of src/src/main.py.  m_args is the set of phase flags given on the *)
(* command line after the default of lines 113-116; m_env is the set of    *)
(* things the run finds in place: "config" (validate_config finds nothing  *)
(* missing), "markdown" (the full-text markdown file), "style_guide" and   *)
(* "prompts" (the inputs of --chapters).                                   *)
(***************************************************************************)
Flags == {"all", "book", "pdf", "audio", "style_guide", "chapters"}

EnvItems == {"config", "markdown", "style_guide", "prompts"}

\* lines 113-116
Defaulted(given) == IF given = {} THEN {"all"} ELSE given

\* the state at line 118, before the try block
InitMain ==
    /\ ChunkIdle
    /\ GenIdle
    /\ MdIdle
    /\ ChapIdle
    /\ TtsIdle
    /\ PreIdle
    /\ m_args \in {Defaulted(given) : given \in SUBSET Flags}
    /\ m_env \in SUBSET EnvItems
    /\ m_pc = "validate"
    /\ m_todo = <<>>
    /\ m_ran = {}
    /\ m_out = {}
    /\ m_exit = NoExit
    /\ m_cause = "none"

\* the given line is printed and the process ends with the given status
ExitWith(status, cause, line) ==
    /\ m_exit' = status
    /\ m_cause' = cause
    /\ m_out' = m_out \cup {line}
    /\ m_pc' = "exited"
    /\ UNCHANGED <<m_args, m_env, m_todo, m_ran>>
    /\ UNCHANGED <<chunkVars, genVars, mdVars, chapVars, ttsVars, preVars>>

\* lines 120, 205-207 and config.py 40-59: ValueError is caught, exit status 1
ValidateConfig ==
    /\ m_pc = "validate"
    /\ IF "config" \in m_env
       THEN /\ m_pc' = "dispatch"
            /\ UNCHANGED <<m_args, m_env, m_todo, m_ran, m_out, m_exit, m_cause>>
            /\ UNCHANGED <<chunkVars, genVars, mdVars, chapVars, ttsVars, preVars>>
       ELSE ExitWith(1, "config", "Configuration Error")

\* the branch of lines 122-193 the flags select: the file the branch needs
\* first (or "" for none), and the phases it calls
Branch ==
    IF "all" \in m_args \/ "book" \in m_args
    THEN [needs |-> {},
          calls |-> IF "all" \in m_args THEN <<"book", "pdf", "audio">> ELSE <<"book">>]
    ELSE IF "pdf" \in m_args THEN [needs |-> {"markdown"}, calls |-> <<"pdf">>]
    ELSE IF "audio" \in m_args THEN [needs |-> {"markdown"}, calls |-> <<"audio">>]
    ELSE IF "style_guide" \in m_args
    THEN [needs |-> {}, calls |-> <<"load_curriculum", "style_guide">>]
    ELSE IF "chapters" \in m_args
    THEN [needs |-> {"style_guide", "prompts"}, calls |-> <<"chapters">>]
    ELSE [needs |-> {}, calls |-> <<>>]

\* lines 122-184: the branch is chosen; sys.exit(1) when an input file of the
\* branch is missing (SystemExit passes the three except clauses)
Dispatch ==
    /\ m_pc = "dispatch"
    /\ IF Branch.needs \subseteq m_env
       THEN /\ m_pc' = "run"
            /\ m_todo' = Branch.calls
            /\ UNCHANGED <<m_args, m_env, m_ran, m_out, m_exit, m_cause>>
            /\ UNCHANGED <<chunkVars, genVars, mdVars, chapVars, ttsVars, preVars>>
       ELSE ExitWith(1, "missing_file", "Error: file not found")

Running == m_pc = "run" /\ m_todo # <<>>

\* a phase of the branch is called and returns
PhaseReturns ==
    /\ Running
    /\ m_ran' = m_ran \cup {Head(m_todo)}
    /\ m_todo' = Tail(m_todo)
    /\ UNCHANGED <<m_args, m_env, m_pc, m_out, m_exit, m_cause>>
    /\ UNCHANGED <<chunkVars, genVars, mdVars, chapVars, ttsVars, preVars>>

\* lines 205-207: a phase raises ValueError; caught, exit status 1
PhaseRaisesValueError ==
    /\ Running
    /\ ExitWith(1, "fatal", "Configuration Error")

\* mutant: the exception is printed and not raised again
PhaseRaisesException_Swallowed ==
    /\ Running
    /\ ExitWith(0, "fatal", "Error")

\* lines 211-213: a phase raises another Exception; printed and raised again,
\* the interpreter ends with the traceback and exit status 1
PhaseRaisesException ==
    /\ Running
    /\ ExitWith(1, "fatal", "Error")

\* lines 208-210: KeyboardInterrupt anywhere in the try block; exit status 130
Interrupt ==
    /\ m_pc \in {"validate", "dispatch"} \/ Running
    /\ ExitWith(130, "interrupt", "Interrupted by user.")

\* lines 195-203: the completion summary, then main returns
PrintSummary ==
    /\ m_pc = "run"
    /\ m_todo = <<>>
    /\ m_out' = m_out \cup {"COMPLETE", "Book"}
                    \cup (IF "all" \in m_args \/ "pdf" \in m_args THEN {"PDF"} ELSE {})
                    \cup (IF "all" \in m_args \/ "audio" \in m_args
                          THEN {"Audiobook"} ELSE {})
    /\ m_exit' = 0
    /\ m_cause' = "completed"
    /\ m_pc' = "exited"
    /\ UNCHANGED <<m_args, m_env, m_todo, m_ran>>
    /\ UNCHANGED <<chunkVars, genVars, mdVars, chapVars, ttsVars, preVars>>

NextMain ==
    \/ ValidateConfig
    \/ Dispatch
    \/ PhaseReturns
    \/ PhaseRaisesValueError
    \/ PhaseRaisesException
    \/ Interrupt
    \/ PrintSummary

SpecMain == InitMain /\ [][NextMain]_vars

Letters ==
    {"a", "b", "c", "d", "e", "f", "g", "h", "i", "j", "k", "l", "m", "n", "o", "p", "q", "r", "s", "t", "u", "v", "w", "x", "y", "z",
     "A", "B", "C", "D", "E", "F", "G", "H", "I", "J", "K", "L", "M", "N", "O", "P", "Q", "R", "S", "T", "U", "V", "W", "X", "Y", "Z"}

Digits == {"0", "1", "2", "3", "4", "5", "6", "7", "8", "9"}

\* the regex class \w
WordChars == Letters \cup Digits \cup {"_"}

IsWordChar(c) == c \in WordChars

\* the regex class \s, for the characters of the model
Whitespace == {" ", "\n"}

\* U+0060, which a string of this language cannot hold
Backtick == "backtick"

\* the opening and the closing of a fenced code block
Fence == <<Backtick, Backtick, Backtick>>

\* the character at index i, "" outside the string
At(s, i) == IF i >= 1 /\ i <= Len(s) THEN s[i] ELSE ""

\* the literal lit stands at index i
HasAt(s, i, lit) ==
    /\ i >= 1
    /\ i + Len(lit) - 1 <= Len(s)
    /\ \A k \in 1..Len(lit) : s[i + k - 1] = lit[k]

\* the last index of the longest run of characters of the class C that starts
\* at i; i - 1 when the run is empty
RunEnd(C, s, i) ==
    IF i > Len(s) THEN i - 1
    ELSE LET stop == {k \in i..Len(s) : s[k] \notin C}
         IN  IF stop = {} THEN Len(s) ELSE SetMin(stop) - 1

\* the same for a negated class [^...]: the run stops at a character of C
RunEndNot(C, s, i) ==
    IF i > Len(s) THEN i - 1
    ELSE LET stop == {k \in i..Len(s) : s[k] \in C}
         IN  IF stop = {} THEN Len(s) ELSE SetMin(stop) - 1

\* the first index >= from where lit stands, 0 when there is none
FindLit(s, from, lit) ==
    LET hits == {k \in from..Len(s) : HasAt(s, k, lit)}
    IN  IF hits = {} THEN 0 ELSE SetMin(hits)

\* ^ and $ under re.MULTILINE
AtLineStart(s, i) == i = 1 \/ s[i - 1] = "\n"
AtLineEnd(s, e) == e = Len(s) \/ s[e + 1] = "\n"

\* r'^---\n.*?\n---\n', re.DOTALL
FrontMatterEnd(s, i) ==
    IF i = 1 /\ HasAt(s, 1, <<"-", "-", "-", "\n">>)
    THEN LET j == FindLit(s, 5, <<"\n", "-", "-", "-", "\n">>) IN IF j = 0 THEN 0 ELSE j + 4
    ELSE 0

\* r'\\newpage'
NewpageEnd(s, i) == IF HasAt(s, i, <<"\\", "n", "e", "w", "p", "a", "g", "e">>) THEN i + 7 ELSE 0

\* r'\\[a-zA-Z]+\{[^}]*\}'
LatexArgEnd(s, i) ==
    IF At(s, i) # "\\" THEN 0
    ELSE LET p == RunEnd(Letters, s, i + 1)
             q == RunEndNot({"}"}, s, p + 2)
         IN  IF p >= i + 1 /\ At(s, p + 1) = "{" /\ At(s, q + 1) = "}"
             THEN q + 1 ELSE 0

\* r'\\[a-zA-Z]+'
LatexEnd(s, i) ==
    IF At(s, i) # "\\" THEN 0
    ELSE LET p == RunEnd(Letters, s, i + 1)
         IN  IF p >= i + 1 THEN p ELSE 0

\* r'!\[.*?\]\(.*?\)': the first "](" and the first ")" after it, on one line
ImageEnd(s, i) ==
    IF ~HasAt(s, i, <<"!", "[">>) THEN 0
    ELSE LET eol == RunEndNot({"\n"}, s, i + 2)
             mid == {k \in (i + 2)..(eol - 1) : s[k] = "]" /\ s[k + 1] = "("}
         IN  IF mid = {} THEN 0
             ELSE LET close == {k \in (SetMin(mid) + 2)..eol : s[k] = ")"}
                  IN  IF close = {} THEN 0 ELSE SetMin(close)

\* the lookahead (?=\n\n|\n#|$) right after index e
CaptionStops(s, e) ==
    \/ HasAt(s, e + 1, <<"\n", "\n">>)
    \/ HasAt(s, e + 1, <<"\n", "#">>)
    \/ e = Len(s)
    \/ (e + 1 = Len(s) /\ s[e + 1] = "\n")

\* r'\*\*Figure \d+\.\d+:\*\*.*?(?=\n\n|\n#|$)', re.DOTALL
FigureEnd(s, i) ==
    IF ~HasAt(s, i, <<"*", "*", "F", "i", "g", "u", "r", "e", " ">>) THEN 0
    ELSE LET p1 == RunEnd(Digits, s, i + 9)
             p2 == RunEnd(Digits, s, p1 + 2)
         IN  IF /\ p1 >= i + 9
                /\ At(s, p1 + 1) = "."
                /\ p2 >= p1 + 2
                /\ HasAt(s, p2 + 1, <<":", "*", "*">>)
             THEN SetMin({e \in (p2 + 3)..Len(s) : CaptionStops(s, e)})
             ELSE 0

\* r'\[([^\]]+)\]\([^)]+\)'
LinkEnd(s, i) ==
    IF At(s, i) # "[" THEN 0
    ELSE LET p == RunEndNot({"]"}, s, i + 1)
             q == RunEndNot({")"}, s, p + 3)
         IN  IF /\ p >= i + 1
                /\ At(s, p + 1) = "]"
                /\ At(s, p + 2) = "("
                /\ q >= p + 3
                /\ At(s, q + 1) = ")"
             THEN q + 1 ELSE 0

\* r'\1' of the link pattern
LinkText(s, i, e) == SubSeq(s, i + 1, RunEndNot({"]"}, s, i + 1))

\* line 53, re.DOTALL: three backticks, (\w*), \n, .*? and three backticks
FenceEnd(s, i) ==
    IF ~HasAt(s, i, Fence) THEN 0
    ELSE LET p == RunEnd(WordChars, s, i + 3)
             j == FindLit(s, p + 2, Fence)
         IN  IF At(s, p + 1) = "\n" /\ j # 0 THEN j + 2 ELSE 0

OmittedForAudio == <<" ", "c", "o", "d", "e", " ", "e", "x", "a", "m", "p", "l", "e", " ", "o", "m", "i", "t", "t", "e", "d", " ", "f", "o", "r", " ", "a", "u", "d", "i", "o", "]">>

\* replace_code_block, lines 50-52
replace_code_block(s, i, e) ==
    LET lang == SubSeq(s, i + 3, RunEnd(WordChars, s, i + 3))
    IN  <<"[">> \o (IF lang # <<>> THEN lang ELSE <<"c", "o", "d", "e">>)
              \o OmittedForAudio

\* line 56: a backtick, a non-empty run without backticks, a backtick
InlineCodeEnd(s, i) ==
    IF At(s, i) # Backtick THEN 0
    ELSE LET p == RunEndNot({Backtick}, s, i + 1)
         IN  IF p >= i + 1 /\ At(s, p + 1) = Backtick THEN p + 1 ELSE 0

\* r'\1' of a pattern with n delimiter characters on both sides
Inner(s, i, e, n) == SubSeq(s, i + n, e - n)

\* where (.+) starts in r'^#{lo,hi}\s+(.+)$', re.MULTILINE, 0 for no match:
\* \s+ takes the whole run of whitespace after the hashes, and gives back
\* what (.+) needs when the run reaches the end of the string
TitleStart(s, i, lo, hi) ==
    IF ~AtLineStart(s, i) THEN 0
    ELSE LET h == RunEnd({"#"}, s, i)
             w == RunEnd(Whitespace, s, h + 1)
             back == {q \in (h + 1)..(w - 1) : s[q + 1] # "\n"}
         IN  IF h - i + 1 < lo \/ h - i + 1 > hi \/ w < h + 1 THEN 0
             ELSE IF w < Len(s) THEN w + 1
             ELSE IF back = {} THEN 0
             ELSE SetMax(back) + 1

HeadingEnd(s, i, lo, hi) ==
    LET t == TitleStart(s, i, lo, hi)
    IN  IF t = 0 THEN 0 ELSE RunEndNot({"\n"}, s, t)

\* as FormatHeading, without the period after the title
FormatHeading_NoPeriod(s, i, e, lo, hi) ==
    <<"\n", "\n">> \o Strip(SubSeq(s, TitleStart(s, i, lo, hi), e)) \o <<"\n", "\n">>

\* format_h1, format_h2, format_subsection: lines 59-61, 65-67, 71-73
FormatHeading(s, i, e, lo, hi) ==
    <<"\n", "\n">> \o Strip(SubSeq(s, TitleStart(s, i, lo, hi), e)) \o <<".", "\n", "\n">>

\* r'\*\*\*([^*]+)\*\*\*' and the like: n characters c, a run without c, n
\* characters c
EmphasisEnd(s, i, c, n) ==
    LET p == RunEndNot({c}, s, i + n)
    IN  IF /\ \A k \in 0..(n - 1) : At(s, i + k) = c
           /\ p >= i + n
           /\ \A k \in 1..n : At(s, p + k) = c
        THEN p + n ELSE 0

\* r'^\s*[-*]\s+', re.MULTILINE
BulletEnd(s, i) ==
    IF ~AtLineStart(s, i) THEN 0
    ELSE LET w == RunEnd(Whitespace, s, i)
             v == RunEnd(Whitespace, s, w + 2)
         IN  IF At(s, w + 1) \in {"-", "*"} /\ v >= w + 2 THEN v ELSE 0

\* r'^\s*\d+\.\s+', re.MULTILINE
NumberedEnd(s, i) ==
    IF ~AtLineStart(s, i) THEN 0
    ELSE LET w == RunEnd(Whitespace, s, i)
             d == RunEnd(Digits, s, w + 1)
             v == RunEnd(Whitespace, s, d + 2)
         IN  IF d >= w + 1 /\ At(s, d + 1) = "." /\ v >= d + 2 THEN v ELSE 0

\* the dict abbreviations, lines 87-120, in its iteration order
Abbreviations == <<
    <<<<"e", ".", "g", ".">>, <<"f", "o", "r", " ", "e", "x", "a", "m", "p", "l", "e">>>>,
    <<<<"i", ".", "e", ".">>, <<"t", "h", "a", "t", " ", "i", "s">>>>,
    <<<<"e", "t", "c", ".">>, <<"a", "n", "d", " ", "s", "o", " ", "o", "n">>>>,
    <<<<"v", "s", ".">>, <<"v", "e", "r", "s", "u", "s">>>>,
    <<<<"A", "P", "I">>, <<"A", " ", "P", " ", "I">>>>,
    <<<<"A", "P", "I", "s">>, <<"A", " ", "P", " ", "I", "s">>>>,
    <<<<"J", "S", "O", "N">>, <<"J", "a", "s", "o", "n">>>>,
    <<<<"J", "S", "O", "N", "-", "R", "P", "C">>, <<"J", "a", "s", "o", "n", " ", "R", " ", "P", " ", "C">>>>,
    <<<<"S", "T", "D", "I", "O">>, <<"s", "t", "a", "n", "d", "a", "r", "d", " ", "I", " ", "O">>>>,
    <<<<"s", "t", "d", "i", "o">>, <<"s", "t", "a", "n", "d", "a", "r", "d", " ", "I", " ", "O">>>>,
    <<<<"S", "S", "E">>, <<"S", " ", "S", " ", "E">>>>,
    <<<<"H", "T", "T", "P">>, <<"H", " ", "T", " ", "T", " ", "P">>>>,
    <<<<"H", "T", "T", "P", "S">>, <<"H", " ", "T", " ", "T", " ", "P", " ", "S">>>>,
    <<<<"U", "R", "L">>, <<"U", " ", "R", " ", "L">>>>,
    <<<<"U", "R", "L", "s">>, <<"U", " ", "R", " ", "L", "s">>>>,
    <<<<"U", "R", "I">>, <<"U", " ", "R", " ", "I">>>>,
    <<<<"L", "L", "M">>, <<"L", " ", "L", " ", "M">>>>,
    <<<<"L", "L", "M", "s">>, <<"L", " ", "L", " ", "M", "s">>>>,
    <<<<"A", "I">>, <<"A", " ", "I">>>>,
    <<<<"I", "D", "E">>, <<"I", " ", "D", " ", "E">>>>,
    <<<<"I", "D", "E", "s">>, <<"I", " ", "D", " ", "E", "s">>>>,
    <<<<"S", "D", "K">>, <<"S", " ", "D", " ", "K">>>>,
    <<<<"S", "D", "K", "s">>, <<"S", " ", "D", " ", "K", "s">>>>,
    <<<<"C", "L", "I">>, <<"C", " ", "L", " ", "I">>>>,
    <<<<"M", "C", "P">>, <<"M", " ", "C", " ", "P">>>>,
    <<<<"R", "E", "S", "T">>, <<"r", "e", "s", "t">>>>,
    <<<<"G", "r", "a", "p", "h", "Q", "L">>, <<"G", "r", "a", "p", "h", " ", "Q", " ", "L">>>>,
    <<<<"O", "A", "u", "t", "h">>, <<"O", " ", "A", "u", "t", "h">>>>,
    <<<<"R", "A", "G">>, <<"r", "a", "g">>>>,
    <<<<"N", "P", "M">>, <<"N", " ", "P", " ", "M">>>>,
    <<<<"n", "p", "m">>, <<"N", " ", "P", " ", "M">>>>,
    <<<<"U", "U", "I", "D">>, <<"U", " ", "U", " ", "I", " ", "D">>>>
>>

\* \b between index i - 1 and index i
WordBoundary(s, i) == IsWordChar(At(s, i - 1)) # IsWordChar(At(s, i))

\* rf'\b{re.escape(abbr)}\b'
AbbrevEnd(s, i, abbr) ==
    IF /\ HasAt(s, i, abbr)
       /\ WordBoundary(s, i)
       /\ WordBoundary(s, i + Len(abbr))
    THEN i + Len(abbr) - 1 ELSE 0

\* lines 126-130; the characters U+2192, U+2190 and U+00D7 are written
\* "rarr", "larr" and "times"
SpokenSymbol(c) ==
    IF c = "rarr" THEN <<" ", "t", "o", " ">>
    ELSE IF c = "larr" THEN <<" ", "f", "r", "o", "m", " ">>
    ELSE IF c = "times" THEN <<" ", "t", "i", "m", "e", "s", " ">>
    ELSE IF c = "&" THEN <<" ", "a", "n", "d", " ">>
    ELSE <<" ", "p", "e", "r", "c", "e", "n", "t">>

SymbolEnd(s, i) ==
    IF s[i] \in {"rarr", "larr", "times", "&", "%"} THEN i ELSE 0

\* r'^---+$', re.MULTILINE
RuleEnd(s, i) ==
    IF ~AtLineStart(s, i) THEN 0
    ELSE LET d == RunEnd({"-"}, s, i)
         IN  IF d - i + 1 >= 3 /\ AtLineEnd(s, d) THEN d ELSE 0

\* r'\n{3,}' and r' {2,}': a run of at least n characters c
LongRunEnd(s, i, c, n) ==
    LET p == RunEnd({c}, s, i)
    IN  IF p - i + 1 >= n THEN p ELSE 0

\* text.split('\n')
RECURSIVE SplitLines(_)
SplitLines(s) ==
    LET nl == {k \in 1..Len(s) : s[k] = "\n"}
    IN  IF nl = {} THEN <<s>>
        ELSE <<SubSeq(s, 1, SetMin(nl) - 1)>> \o SplitLines(SubSeq(s, SetMin(nl) + 1, Len(s)))

\* '\n'.join(line.strip() for line in text.split('\n'))
RECURSIVE JoinStripped(_)
JoinStripped(lines) ==
    IF Len(lines) = 1 THEN Strip(lines[1])
    ELSE Strip(Head(lines)) \o <<"\n">> \o JoinStripped(Tail(lines))

\* a pattern of the function, by name; the pattern of an entry of the table
\* carries the key and the expansion of the entry
Re(name) == [re |-> name, key |-> <<>>, to |-> <<>>]

ReAbbrev(pair) == [re |-> "abbreviation", key |-> pair[1], to |-> pair[2]]

\* where the match of pattern p that starts at k ends, 0 when there is none
MatchEnd(p, s, k) ==
    CASE p.re = "frontmatter"  -> FrontMatterEnd(s, k)
      [] p.re = "newpage"      -> NewpageEnd(s, k)
      [] p.re = "latexarg"     -> LatexArgEnd(s, k)
      [] p.re = "latex"        -> LatexEnd(s, k)
      [] p.re = "image"        -> ImageEnd(s, k)
      [] p.re = "figure"       -> FigureEnd(s, k)
      [] p.re = "link"         -> LinkEnd(s, k)
      [] p.re = "fence"        -> FenceEnd(s, k)
      [] p.re = "inlinecode"   -> InlineCodeEnd(s, k)
      [] p.re = "h1"           -> HeadingEnd(s, k, 1, 1)
      [] p.re = "h2"           -> HeadingEnd(s, k, 2, 2)
      [] p.re = "h3to6"        -> HeadingEnd(s, k, 3, 6)
      [] p.re = "bolditalic"   -> EmphasisEnd(s, k, "*", 3)
      [] p.re = "bold"         -> EmphasisEnd(s, k, "*", 2)
      [] p.re = "italic"       -> EmphasisEnd(s, k, "*", 1)
      [] p.re = "underscore"   -> EmphasisEnd(s, k, "_", 1)
      [] p.re = "bullet"       -> BulletEnd(s, k)
      [] p.re = "numbered"     -> NumberedEnd(s, k)
      [] p.re = "abbreviation" -> AbbrevEnd(s, k, p.key)
      [] p.re = "symbol"       -> SymbolEnd(s, k)
      [] p.re = "rule"         -> RuleEnd(s, k)
      [] p.re = "newlines"     -> LongRunEnd(s, k, "\n", 3)
      [] p.re = "spaces"       -> LongRunEnd(s, k, " ", 2)

\* what the match k..e of pattern p is replaced by
Replacement(p, s, k, e) ==
    CASE p.re = "link"         -> LinkText(s, k, e)
      [] p.re = "fence"        -> replace_code_block(s, k, e)
      [] p.re = "inlinecode"   -> Inner(s, k, e, 1)
      [] p.re = "h1"           -> FormatHeading(s, k, e, 1, 1)
      [] p.re = "h2"           -> FormatHeading(s, k, e, 2, 2)
      [] p.re = "h3to6"        -> FormatHeading(s, k, e, 3, 6)
      [] p.re = "bolditalic"   -> Inner(s, k, e, 3)
      [] p.re = "bold"         -> Inner(s, k, e, 2)
      [] p.re = "italic"       -> Inner(s, k, e, 1)
      [] p.re = "underscore"   -> Inner(s, k, e, 1)
      [] p.re = "abbreviation" -> p.to
      [] p.re = "symbol"       -> SpokenSymbol(s[k])
      [] p.re = "rule"         -> <<"\n">>
      [] p.re = "newlines"     -> <<"\n", "\n">>
      [] p.re = "spaces"       -> <<" ">>
      [] OTHER                 -> <<>>

\* re.sub(p, repl, s), the scan from index i on
RECURSIVE ReSub(_, _, _)
ReSub(p, s, i) ==
    LET ends == [k \in i..Len(s) |-> MatchEnd(p, s, k)]
        starts == {k \in i..Len(s) : ends[k] >= k}
    IN  IF starts = {} THEN SubSeq(s, i, Len(s))
        ELSE SubSeq(s, i, SetMin(starts) - 1)
                 \o Replacement(p, s, SetMin(starts), ends[SetMin(starts)])
                 \o ReSub(p, s, ends[SetMin(starts)] + 1)

\* the statements text = re.sub(...) and text = text.replace(...) of lines
\* 33-137, in the order of the function; the loop of lines 122-123 is one
\* statement per entry of the table, and the five replace calls of lines
\* 126-130, none of which produces a character another one replaces, are one
Program ==
    <<Re("frontmatter"), Re("newpage"), Re("latexarg"), Re("latex"), Re("image"),
      Re("figure"), Re("link"), Re("fence"), Re("inlinecode"), Re("h1"), Re("h2"),
      Re("h3to6"), Re("bolditalic"), Re("bold"), Re("italic"), Re("underscore"),
      Re("bullet"), Re("numbered")>>
    \o [k \in 1..Len(Abbreviations) |-> ReAbbrev(Abbreviations[k])]
    \o <<Re("symbol"), Re("rule"), Re("newlines"), Re("spaces")>>

(***************************************************************************)
(* markdown_to_text as a process: md_text is its local variable text and   *)
(* md_pc the statement it is at.  The documents it is called with are      *)
(* sequences of at most MaxTokens tokens, one family per rule of the       *)
(* normaliser.                                                             *)
(***************************************************************************)
MaxTokens == 3

RECURSIVE Flatten(_)
Flatten(ss) == IF ss = <<>> THEN <<>> ELSE Head(ss) \o Flatten(Tail(ss))

TokenSeqs(V) == UNION {[1..k -> V] : k \in 0..MaxTokens}

\* prose with abbreviations, alone and inside identifiers
AbbrevTokens ==
    {<<"J", "S", "O", "N", "-", "R", "P", "C">>, <<"J", "S", "O", "N">>, <<"A", "P", "I">>, <<"K", "E", "Y">>, <<"e", ".", "g", ".">>, <<"v", "s", ".">>, <<" ">>, <<",">>, <<"x">>}

AbbrevDocs == {Flatten(ts) : ts \in TokenSeqs(AbbrevTokens)}

\* a heading line, then bold text, inline code, links and words
HeadingLines == {<<"#", " ", "T", "\n", "\n">>, <<"#", "#", " ", "T", "\n", "\n">>, <<"#", "#", "#", " ", "T", "\n", "\n">>}

Bold == <<"*", "*", "b", "*", "*">>

MarkupTokens ==
    {Bold, <<Backtick, "c", Backtick>>, <<"[", "l", "]", "(", "u", ")">>, <<"w">>, <<" ">>, <<"\n", "\n">>}

\* two bold spans do not touch: the four asterisks between them would not
\* close one span and open the next
MarkupSeqs ==
    {ts \in TokenSeqs(MarkupTokens) :
        \A k \in 1..(Len(ts) - 1) : ~(ts[k] = Bold /\ ts[k + 1] = Bold)}

MarkupDocs == {h \o Flatten(ts) : h \in HeadingLines, ts \in MarkupSeqs}

\* a fenced block with the code line k and the language label lang
FencedBlock(lang) == Fence \o lang \o <<"\n", "k", "\n">> \o Fence \o <<"\n">>

\* fenced blocks without a label, labelled js and labelled c++, and prose lines
FenceTokens ==
    {FencedBlock(<<>>), FencedBlock(<<"j", "s">>), FencedBlock(<<"c", "+", "+">>), <<"w", "\n">>}

FenceDocs == {Flatten(ts) : ts \in TokenSeqs(FenceTokens)}

\* heading, emphasis and list markers around a word
MarkerTokens == {<<"_", "_">>, <<"*", "*">>, <<"*", " ">>, <<"#", " ">>, <<"a">>, <<"\n">>}

MarkerDocs == {Flatten(ts) : ts \in TokenSeqs(MarkerTokens)}

\* lines that are empty, blank or hold words, before a last word
BlankLines == {<<"a", "\n">>, <<"\n">>, <<" ", "\n">>, <<"a", " ", " ", "a", " ", "\n">>}

BlankDocs == {Flatten(ts) \o <<"a">> : ts \in TokenSeqs(BlankLines)}

Documents == AbbrevDocs \cup MarkupDocs \cup FenceDocs \cup MarkerDocs \cup BlankDocs

InitMd ==
    /\ ChunkIdle /\ GenIdle /\ MainIdle
    /\ ChapIdle /\ TtsIdle /\ PreIdle
    /\ md_in \in Documents
    /\ md_text = md_in
    /\ md_out = <<>>
    /\ md_pc = 1

\* the position after the return
AfterReturn == Len(Program) + 2

\* lines 33-137: the statement md_pc of Program
Substitute ==
    /\ md_pc \in 1..Len(Program)
    /\ md_text' = ReSub(Program[md_pc], md_text, 1)
    /\ md_pc' = md_pc + 1
    /\ UNCHANGED <<md_in, md_out>>
    /\ UNCHANGED <<chunkVars, genVars, mainVars, chapVars, ttsVars, preVars>>

\* lines 138-141: every line stripped, the text stripped and returned
StripAndReturn ==
    /\ md_pc = Len(Program) + 1
    /\ md_text' = Strip(JoinStripped(SplitLines(md_text)))
    /\ md_out' = Append(md_out, md_text')
    /\ md_pc' = AfterReturn
    /\ UNCHANGED md_in
    /\ UNCHANGED <<chunkVars, genVars, mainVars, chapVars, ttsVars, preVars>>

\* markdown_to_text called with the text it returned
CallAgain ==
    /\ md_pc = AfterReturn
    /\ Len(md_out) = 1
    /\ md_text' = md_out[1]
    /\ md_pc' = 1
    /\ UNCHANGED <<md_in, md_out>>
    /\ UNCHANGED <<chunkVars, genVars, mainVars, chapVars, ttsVars, preVars>>

NextMd ==
    \/ Substitute
    \/ StripAndReturn
    \/ CallAgain

SpecMd == InitMd /\ [][NextMd]_vars

(***************************************************************************)
(* Properties of markdown_to_text.                                         *)
(***************************************************************************)
\* the first call has returned; md_out[1] is what it returned
MdReturned == md_pc = AfterReturn

\* the number of places where lit stands in s
Count(s, lit) == Cardinality({i \in 1..Len(s) : HasAt(s, i, lit)})

\* key stands at i as a whole word: no letter, digit or underscore touches it
Standalone(s, i, key) ==
    /\ HasAt(s, i, key)
    /\ ~IsWordChar(At(s, i - 1))
    /\ ~IsWordChar(At(s, i + Len(key)))

CountStandalone(s, key) ==
    Cardinality({i \in 1..Len(s) : Standalone(s, i, key)})

\* C13: every whole-word occurrence of the compound JSON-RPC in the document
\* comes out as its own expansion "Jason R P C", never expanded in part through
\* the entry JSON.
C13_CompoundExpandedWhole ==
    MdReturned =>
        Count(md_out[1], <<"J", "a", "s", "o", "n", " ", "R", " ", "P", " ", "C">>) = CountStandalone(md_in, <<"J", "S", "O", "N", "-", "R", "P", "C">>)

\* the entries of the table whose key ends with a period
DottedEntries == {p \in {Abbreviations[k] : k \in 1..Len(Abbreviations)} : p[1][Len(p[1])] = "."}

\* C14: every standalone e.g., i.e., etc. and vs. of the document comes out as
\* its expansion, whatever follows it: a space, punctuation or the end of the text.
C14_DottedAbbreviationsExpanded ==
    MdReturned =>
        \A p \in DottedEntries :
            Count(md_out[1], p[2]) = CountStandalone(md_in, p[1])

\* the text from index i on, with every whole-word occurrence of the key of
\* the entry replaced by the expansion of the entry, and nothing else changed
RECURSIVE WholeWordFrom(_, _, _)
WholeWordFrom(s, pair, i) ==
    LET starts == {k \in i..Len(s) : Standalone(s, k, pair[1])}
    IN  IF starts = {} THEN SubSeq(s, i, Len(s))
        ELSE SubSeq(s, i, SetMin(starts) - 1) \o pair[2]
                 \o WholeWordFrom(s, pair, SetMin(starts) + Len(pair[1]))

WholeWordSub(s, pair) == WholeWordFrom(s, pair, 1)

\* C15: an iteration of the abbreviation loop replaces every whole-word
\* occurrence of its key by the expansion of that key, and leaves a key inside a
\* larger identifier as it is.
C15_WholeWordMatching ==
    [][(Substitute /\ Program[md_pc].re = "abbreviation") =>
           md_text' = WholeWordSub(md_text, <<Program[md_pc].key, Program[md_pc].to>>)]_vars

\* the letters of the visible text of a document of MarkupDocs: the heading
\* text T, the bold text b, the code text c, the link text l and the word w
IsContent(c) == c \in {"T", "b", "c", "l", "w"}

\* what is left of the syntax of a heading, of emphasis, of a code span and
\* of a link, and the link target u
MarkupResidue == {"#", "*", Backtick, "[", "]", "(", ")", "u"}

Placeholder(lang) == lang \o OmittedForAudio

\* C17: for a document made of fenced blocks and prose lines, every block
\* comes out as the placeholder of its label ("code" without a label), no code
\* line is in the returned text, and every prose line is.
C17_FencedBlocksReplaced ==
    (MdReturned /\ md_in \in FenceDocs) =>
        /\ Count(md_out[1], <<"k">>) = 0
        /\ Count(md_out[1], <<"w">>) = Count(md_in, <<"w">>)
        /\ Count(md_out[1], <<"[">> \o Placeholder(<<"c", "o", "d", "e">>)) = Count(md_in, Fence \o <<"\n", "k">>)
        /\ Count(md_out[1], <<"[">> \o Placeholder(<<"j", "s">>)) = Count(md_in, Fence \o <<"j", "s", "\n", "k">>)
        /\ Count(md_out[1], <<"[">> \o Placeholder(<<"c", "+", "+">>)) = Count(md_in, Fence \o <<"c", "+", "+", "\n", "k">>)

\* C18: markdown_to_text applied to the text it returned returns that text.
C18_Idempotent ==
    (MdReturned /\ Len(md_out) = 2) => md_out[2] = md_out[1]

\* C19: the returned text has no three consecutive newlines and no two
\* consecutive spaces, and neither a line of it nor the text as a whole
\* starts or ends with whitespace.
C19_WhitespaceNormalised ==
    MdReturned =>
        /\ Count(md_out[1], <<"\n", "\n", "\n">>) = 0
        /\ Count(md_out[1], <<" ", " ">>) = 0
        /\ Strip(md_out[1]) = md_out[1]
        /\ \A k \in 1..Len(SplitLines(md_out[1])) :
               Strip(SplitLines(md_out[1])[k]) = SplitLines(md_out[1])[k]

(***************************************************************************)
(* Further properties of audiobook.chunk_text.                             *)
(***************************************************************************)
\* The paragraph loop from the state st on.  TRUE iff at every paragraph P
\* that meets a non-empty buffer it cannot join within n (buffer, the two
\* separator characters and P are more than n), the buffer becomes the next
\* chunk as it stands.
RECURSIVE BufferEmittedBefore(_, _, _)
BufferEmittedBefore(st, paragraphs, n) ==
    IF paragraphs = <<>> THEN TRUE
    ELSE /\ ( /\ Strip(Head(paragraphs)) # <<>>
              /\ st.cur # <<>>
              /\ Len(st.cur) + Len(Strip(Head(paragraphs))) + 2 > n )
            => IsPrefix(Append(st.chunks, Strip(st.cur)),
                        AddParagraph(st, Head(paragraphs), n).chunks)
         /\ BufferEmittedBefore(AddParagraph(st, Head(paragraphs), n), Tail(paragraphs), n)

\* C21: whenever the next paragraph P added to a non-empty buffer would
\* exceed max_length, the buffer is emitted as a chunk of its own before
\* anything of P is stored, also when P is longer than max_length and is
\* split into sentences; no chunk holds text of P next to earlier text.
C21_BufferEmittedBeforeParagraph ==
    Returned =>
        BufferEmittedBefore([chunks |-> <<>>, cur |-> <<>>], SplitParagraphs(text), max_length)

\* the units chunk_text packs: a paragraph of at most n characters, joined
\* to the buffer by two newlines, or a sentence of a longer paragraph,
\* joined by one space
RECURSIVE UnitsOf(_, _)
UnitsOf(paras, n) ==
    IF paras = <<>> THEN <<>>
    ELSE (IF Len(Head(paras)) > n
          THEN [k \in 1..Len(SplitSentences(Head(paras))) |->
                   [txt |-> SplitSentences(Head(paras))[k], sep |-> <<" ">>]]
          ELSE <<[txt |-> Head(paras), sep |-> <<"\n", "\n">>]>>)
         \o UnitsOf(Tail(paras), n)

\* Reads the units off the chunks from left to right; c is the chunk being
\* read, read the number of its characters read so far, cs the chunks after
\* it.  TRUE iff the chunks are the units joined by their separators and, at
\* every boundary, the chunk that ends, the separator and the unit that
\* starts the next chunk are together longer than n.
RECURSIVE GreedyMaximal(_, _, _, _, _)
GreedyMaximal(c, read, cs, units, n) ==
    IF read = Len(c)
    THEN IF cs = <<>> THEN units = <<>>
         ELSE /\ units # <<>>
              /\ IsPrefix(Head(units).txt, Head(cs))
              /\ c # <<>> => Len(c) + Len(Head(units).sep) + Len(Head(units).txt) > n
              /\ GreedyMaximal(Head(cs), Len(Head(units).txt), Tail(cs), Tail(units), n)
    ELSE /\ units # <<>>
         /\ IsPrefix(Head(units).sep \o Head(units).txt, SubSeq(c, read + 1, Len(c)))
         /\ GreedyMaximal(c, read + Len(Head(units).sep) + Len(Head(units).txt),
                          cs, Tail(units), n)

PackSentence(st, sentence, max_chars) ==
    IF Len(st.cur) + Len(sentence) + 1 <= max_chars
    THEN [chunks |-> st.chunks,
          cur |-> st.cur \o (IF st.cur # <<>> THEN <<" ">> ELSE <<>>) \o sentence]
    ELSE [chunks |-> IF st.cur # <<>> THEN Append(st.chunks, Strip(st.cur)) ELSE st.chunks,
          cur |-> sentence]

RECURSIVE PackSentences(_, _, _)
PackSentences(st, sentences, max_chars) ==
    IF sentences = <<>> THEN st
    ELSE PackSentences(PackSentence(st, Head(sentences), max_chars), Tail(sentences), max_chars)

\* the trailing buffer, appended stripped when it is not the empty string
TrailingChunk(st) ==
    IF st.cur # <<>> THEN Append(st.chunks, Strip(st.cur)) ELSE st.chunks

sentence_chunk_text(t, max_chars) ==
    TrailingChunk(PackSentences([chunks |-> <<>>, cur |-> <<>>], SplitSentences(t), max_chars))

InitSentenceChunk ==
    /\ text \in Texts
    /\ max_length \in Limits
    /\ chunks = <<>>
    /\ c_pc = "call"
    /\ GenIdle
    /\ MainIdle
    /\ MdIdle
    /\ ChapIdle
    /\ TtsIdle
    /\ PreIdle

CallSentenceChunkText ==
    /\ c_pc = "call"
    /\ chunks' = sentence_chunk_text(text, max_length)
    /\ c_pc' = "returned"
    /\ UNCHANGED <<text, max_length>>
    /\ UNCHANGED <<genVars, mainVars, mdVars, chapVars, ttsVars, preVars>>

NextSentenceChunk == CallSentenceChunkText

SpecSentenceChunk == InitSentenceChunk /\ [][NextSentenceChunk]_vars

\* C24: the sentence-level chunk_text returns no empty and no
\* whitespace-only chunk for any text, whitespace-only text and text with
\* leading or trailing whitespace included, and returns the empty sequence
\* for the empty string.
C24_NoBlankChunk ==
    Returned =>
        /\ \A k \in DOMAIN chunks : ~IsBlank(chunks[k])
        /\ text = <<>> => chunks = <<>>

(***************************************************************************)
(* SpecChapters: main of audiobook_generator.py, the chapter-based         *)
(* generator.  Chapters are numbered 1..ch_n in the sorted order of        *)
(* load_chapters; chapter c has ch_chunks[c] chunks.  A file of            *)
(* AUDIO_OUTPUT_DIR is <<"chapter", c>>, <<"chunk", c, i>>, <<"list">>     *)
(* (concat_list.txt), <<"final_list">> or <<"final">>.                     *)
(***************************************************************************)
MaxChapters == 2
MaxChapterChunks == 2

\* what one call of generate_audio_chunk can do: write the file and return
\* True; return False without a file (no output, a status other than 200, an
\* exception of replicate.run or requests.get); return False after the file
\* was opened (an exception of f.write)
SynthOutcomes == {"ok", "failed", "failed_writing"}

\* what subprocess.run(cmd, capture_output=True) can do: ffmpeg writes the
\* output; ffmpeg exits with an error and no output; there is no ffmpeg and
\* FileNotFoundError is raised
FfmpegOutcomes == {"ok", "error", "missing"}

ChunkFilesOf(c, idx) == {<<"chunk", c, idx[k]>> : k \in DOMAIN idx}

InitChapters ==
    /\ ChunkIdle /\ GenIdle /\ MainIdle /\ MdIdle /\ TtsIdle /\ PreIdle
    /\ ch_n \in 0..MaxChapters
    /\ ch_chunks \in [1..ch_n -> 0..MaxChapterChunks]
    /\ ch_files \in SUBSET {<<"chapter", c>> : c \in 1..ch_n}
    /\ ch_pc = "start"
    /\ ch_c = 0
    /\ ch_i = 0
    /\ chunk_audio_files = <<>>
    /\ all_chapter_audios = <<>>
    /\ ch_calls = <<>>
    /\ ch_written = {}
    /\ ch_removed = {}
    /\ ch_printed = {}

\* lines 196-207
LoadChapters ==
    /\ ch_pc = "start"
    /\ ch_pc' = "chapter"
    /\ ch_c' = 1
    /\ UNCHANGED <<ch_n, ch_chunks, ch_i, chunk_audio_files, all_chapter_audios,
                   ch_files, ch_calls, ch_written, ch_removed, ch_printed>>
    /\ UNCHANGED <<chunkVars, genVars, mainVars, mdVars, ttsVars, preVars>>

\* as SkipExisting, without line 215
SkipExisting_NotListed ==
    /\ ch_pc = "chapter"
    /\ ch_c <= ch_n
    /\ <<"chapter", ch_c>> \in ch_files
    /\ ch_printed' = ch_printed \cup {<<"skipping", ch_c>>}
    /\ ch_c' = ch_c + 1
    /\ UNCHANGED <<ch_n, ch_chunks, ch_pc, ch_i, chunk_audio_files, all_chapter_audios,
                   ch_files, ch_calls, ch_written, ch_removed>>
    /\ UNCHANGED <<chunkVars, genVars, mainVars, mdVars, ttsVars, preVars>>

\* lines 209-216: the chapter's audio exists
SkipExisting ==
    /\ ch_pc = "chapter"
    /\ ch_c <= ch_n
    /\ <<"chapter", ch_c>> \in ch_files
    /\ ch_printed' = ch_printed \cup {<<"skipping", ch_c>>}
    /\ all_chapter_audios' = Append(all_chapter_audios, ch_c)
    /\ ch_c' = ch_c + 1
    /\ UNCHANGED <<ch_n, ch_chunks, ch_pc, ch_i, chunk_audio_files,
                   ch_files, ch_calls, ch_written, ch_removed>>
    /\ UNCHANGED <<chunkVars, genVars, mainVars, mdVars, ttsVars, preVars>>

\* lines 209-234: the chapter's audio does not exist; the text is cleaned,
\* optimised and chunked
BeginChapter ==
    /\ ch_pc = "chapter"
    /\ ch_c <= ch_n
    /\ <<"chapter", ch_c>> \notin ch_files
    /\ ch_pc' = "chunk"
    /\ ch_i' = 0
    /\ chunk_audio_files' = <<>>
    /\ UNCHANGED <<ch_n, ch_chunks, ch_c, all_chapter_audios,
                   ch_files, ch_calls, ch_written, ch_removed, ch_printed>>
    /\ UNCHANGED <<chunkVars, genVars, mainVars, mdVars, ttsVars, preVars>>

\* lines 235-245 with generate_audio_chunk, lines 113-134
GenerateChunk ==
    /\ ch_pc = "chunk"
    /\ ch_i < ch_chunks[ch_c]
    /\ \E r \in SynthOutcomes :
           /\ ch_calls' = Append(ch_calls, [chapter |-> ch_c, chunk |-> ch_i, success |-> r = "ok"])
           /\ ch_files' = IF r = "failed" THEN ch_files
                          ELSE ch_files \cup {<<"chunk", ch_c, ch_i>>}
           /\ chunk_audio_files' = IF r = "ok" THEN Append(chunk_audio_files, ch_i)
                                   ELSE chunk_audio_files
    /\ ch_i' = ch_i + 1
    /\ UNCHANGED <<ch_n, ch_chunks, ch_pc, ch_c, all_chapter_audios,
                   ch_written, ch_removed, ch_printed>>
    /\ UNCHANGED <<chunkVars, genVars, mainVars, mdVars, ttsVars, preVars>>

\* lines 248 and 253-255: no chunk of the chapter has audio
NothingToConcatenate ==
    /\ ch_pc = "chunk"
    /\ ch_i = ch_chunks[ch_c]
    /\ chunk_audio_files = <<>>
    /\ ch_printed' = ch_printed \cup {<<"completed", ch_c>>}
    /\ ch_pc' = "chapter"
    /\ ch_c' = ch_c + 1
    /\ UNCHANGED <<ch_n, ch_chunks, ch_i, chunk_audio_files, all_chapter_audios,
                   ch_files, ch_calls, ch_written, ch_removed>>
    /\ UNCHANGED <<chunkVars, genVars, mainVars, mdVars, ttsVars, preVars>>

\* lines 248-255 with concatenate_audio_files, lines 137-161
ConcatenateChunks ==
    /\ ch_pc = "chunk"
    /\ ch_i = ch_chunks[ch_c]
    /\ chunk_audio_files # <<>>
    /\ \E r \in FfmpegOutcomes :
           IF r = "missing"
           THEN /\ ch_pc' = "crashed"
                /\ ch_files' = ch_files \cup {<<"list">>}
                /\ UNCHANGED <<ch_c, all_chapter_audios, ch_written, ch_removed, ch_printed>>
           ELSE /\ ch_files' = (ch_files \cup (IF r = "ok" THEN {<<"chapter", ch_c>>} ELSE {}))
                                   \ ChunkFilesOf(ch_c, chunk_audio_files)
                /\ ch_written' = ch_written \cup (IF r = "ok" THEN {<<"chapter", ch_c>>} ELSE {})
                /\ ch_removed' = ch_removed \cup {ch_c}
                /\ all_chapter_audios' = Append(all_chapter_audios, ch_c)
                /\ ch_printed' = ch_printed \cup {<<"completed", ch_c>>}
                /\ ch_pc' = "chapter"
                /\ ch_c' = ch_c + 1
    /\ UNCHANGED <<ch_n, ch_chunks, ch_i, chunk_audio_files, ch_calls>>
    /\ UNCHANGED <<chunkVars, genVars, mainVars, mdVars, ttsVars, preVars>>

\* lines 258 and 281-282: no chapter has audio
NoFinalAudiobook ==
    /\ ch_pc = "chapter"
    /\ ch_c > ch_n
    /\ all_chapter_audios = <<>>
    /\ ch_printed' = ch_printed \cup {<<"complete">>}
    /\ ch_pc' = "done"
    /\ UNCHANGED <<ch_n, ch_chunks, ch_c, ch_i, chunk_audio_files, all_chapter_audios,
                   ch_files, ch_calls, ch_written, ch_removed>>
    /\ UNCHANGED <<chunkVars, genVars, mainVars, mdVars, ttsVars, preVars>>

\* lines 258-282
FinalConcatenation ==
    /\ ch_pc = "chapter"
    /\ ch_c > ch_n
    /\ all_chapter_audios # <<>>
    /\ \E r \in FfmpegOutcomes :
           IF r = "missing"
           THEN /\ ch_pc' = "crashed"
                /\ ch_files' = ch_files \cup {<<"final_list">>}
                /\ UNCHANGED <<ch_written, ch_printed>>
           ELSE /\ ch_files' = ch_files \cup (IF r = "ok" THEN {<<"final">>} ELSE {})
                /\ ch_written' = ch_written \cup (IF r = "ok" THEN {<<"final">>} ELSE {})
                /\ ch_printed' = ch_printed \cup {<<"saved">>, <<"complete">>}
                /\ ch_pc' = "done"
    /\ UNCHANGED <<ch_n, ch_chunks, ch_c, ch_i, chunk_audio_files, all_chapter_audios,
                   ch_calls, ch_removed>>
    /\ UNCHANGED <<chunkVars, genVars, mainVars, mdVars, ttsVars, preVars>>

NextChapters ==
    \/ LoadChapters
    \/ SkipExisting
    \/ BeginChapter
    \/ GenerateChunk
    \/ NothingToConcatenate
    \/ ConcatenateChunks
    \/ NoFinalAudiobook
    \/ FinalConcatenation

SpecChapters == InitChapters /\ [][NextChapters]_vars

(***************************************************************************)
(* Properties of the chapter-based generator.                              *)
(***************************************************************************)
\* main has ended, by returning or by an uncaught exception
ChaptersEnded == ch_pc \in {"done", "crashed"}

CallsFor(c) == {k \in DOMAIN ch_calls : ch_calls[k].chapter = c}

\* synthesis was attempted, for every chunk of every chapter, and no call
\* succeeded
EverySynthesisFailed ==
    /\ ch_calls # <<>>
    /\ \A k \in DOMAIN ch_calls : ~ch_calls[k].success
    /\ \A c \in 1..ch_n : Cardinality(CallsFor(c)) = ch_chunks[c]

\* C23: if synthesis fails for every chunk, main stops with a terminal
\* error: it does not report successful completion and produces no final
\* audiobook file.
C23_AllFailedIsTerminalError ==
    (ChaptersEnded /\ EverySynthesisFailed) =>
        /\ ch_pc = "crashed"
        /\ <<"complete">> \notin ch_printed
        /\ <<"final">> \notin ch_written

\* C27: the chunk files of a chapter are removed only when the chapter's
\* concatenated audio exists, in every execution, a failing ffmpeg included,
\* and a chapter is in the final list only if its audio file exists.
C27_ChunksRemovedAfterOutput ==
    /\ \A c \in ch_removed : <<"chapter", c>> \in ch_files
    /\ \A c \in Range(all_chapter_audios) : <<"chapter", c>> \in ch_files

\* the loop is past chapter c
Visited(c) == c < ch_c

\* chapter c was found with its audio file and skipped
Reused(c) == <<"skipping", c>> \in ch_printed

\* C28: for a chapter whose audio file already exists no synthesis call is
\* made and the file is not modified; the final concatenation list holds
\* the available chapter audios in sorted chapter order, reused or newly
\* generated.
C28_Resumable ==
    /\ \A c \in 1..ch_n :
           (Visited(c) /\ <<"chapter", c>> \in ch_files /\ <<"chapter", c>> \notin ch_written)
               => Reused(c)
    /\ \A c \in 1..ch_n :
           Reused(c) => /\ CallsFor(c) = {}
                        /\ <<"chapter", c>> \notin ch_written
                        /\ <<"chapter", c>> \in ch_files
    /\ StrictlyIncreasing(all_chapter_audios)
    /\ \A c \in 1..ch_n :
           (Visited(c) /\ <<"chapter", c>> \in ch_files) => c \in Range(all_chapter_audios)

\* a run that reuses the audio of chapter 1, generates that of chapter 2 and
\* concatenates both
C28_Witness ==
    /\ ch_pc = "done"
    /\ Reused(1)
    /\ <<"chapter", 2>> \in ch_written
    /\ CallsFor(2) # {}
    /\ all_chapter_audios = <<1, 2>>
    /\ <<"final">> \in ch_written

(***************************************************************************)
(* format_for_tts_simple of src/src/audiobook.py, lines 51-131.  The       *)
(* matchers follow the conventions of the ones above: the end of the match *)
(* that starts at i, 0 when there is none.                                 *)
(***************************************************************************)
\* lines 64-69, re.DOTALL: three backticks, [\w]*, \n, (.*?), \n and three
\* backticks
TtsFenceEnd(s, i) ==
    IF ~HasAt(s, i, Fence) THEN 0
    ELSE LET p == RunEnd(WordChars, s, i + 3)
             j == FindLit(s, p + 2, <<"\n">> \o Fence)
         IN  IF At(s, p + 1) = "\n" /\ j # 0 THEN j + 3 ELSE 0

CodeOmitted == <<"[", "C", "o", "d", "e", " ", "e", "x", "a", "m", "p", "l", "e", " ", "o", "m", "i", "t", "t", "e", "d", " ", "f", "o", "r", " ", "a", "u", "d", "i", "o", " ", "v", "e", "r", "s", "i", "o", "n", "]">>

\* where (.+) starts in r'^#{n} (.+)$', re.MULTILINE: n hashes and a space
\* at the start of a line, then at least one character of the line
TtsTitleStart(s, i, n) ==
    IF /\ AtLineStart(s, i)
       /\ \A k \in 0..(n - 1) : At(s, i + k) = "#"
       /\ At(s, i + n) = " "
       /\ At(s, i + n + 1) \notin {"", "\n"}
    THEN i + n + 1 ELSE 0

TtsHeadingEnd(s, i, n) ==
    IF TtsTitleStart(s, i, n) = 0 THEN 0 ELSE RunEndNot({"\n"}, s, TtsTitleStart(s, i, n))

Pause == <<"[", "p", "a", "u", "s", "e", "]">>

\* the replacement strings of lines 75-78
SpokenHeading(s, i, e, n) ==
    IF n = 1 THEN <<"\n">> \o Pause \o <<"\n", "P", "a", "r", "t", ":", " ">> \o SubSeq(s, i + 2, e) \o <<"\n">> \o Pause \o <<"\n">>
    ELSE IF n = 2 THEN <<"\n">> \o Pause \o <<"\n", "C", "h", "a", "p", "t", "e", "r", ":", " ">> \o SubSeq(s, i + 3, e) \o <<"\n">> \o Pause \o <<"\n">>
    ELSE IF n = 3 THEN <<"\n", "S", "e", "c", "t", "i", "o", "n", ":", " ">> \o SubSeq(s, i + 4, e) \o <<"\n">>
    ELSE <<"\n">> \o SubSeq(s, i + 5, e) \o <<"\n">>

\* r'\*\*(.+?)\*\*' and the like, lines 81-84: n characters c, the shortest
\* non-empty run of characters of one line, n characters c
LazySpanEnd(s, i, c, n) ==
    IF ~(\A k \in 0..(n - 1) : At(s, i + k) = c) THEN 0
    ELSE LET eol == RunEndNot({"\n"}, s, i + n)
             close == {j \in (i + n + 1)..(eol - n + 1) : \A k \in 0..(n - 1) : s[j + k] = c}
         IN  IF close = {} THEN 0 ELSE SetMin(close) + n - 1

\* line 90: r'!\[([^\]]*)\]\([^\)]+\)'
TtsImageEnd(s, i) ==
    IF ~HasAt(s, i, <<"!", "[">>) THEN 0
    ELSE LET p == RunEndNot({"]"}, s, i + 2)
             q == RunEndNot({")"}, s, p + 3)
         IN  IF /\ At(s, p + 1) = "]"
                /\ At(s, p + 2) = "("
                /\ q >= p + 3
                /\ At(s, q + 1) = ")"
             THEN q + 1 ELSE 0

\* r'[Image: \1]'
ImageText(s, i, e) ==
    <<"[", "I", "m", "a", "g", "e", ":", " ">> \o SubSeq(s, i + 2, RunEndNot({"]"}, s, i + 2)) \o <<"]">>

\* where (.+) starts in r'^[\-\*] (.+)$', re.MULTILINE
TtsBulletStart(s, i) ==
    IF /\ AtLineStart(s, i)
       /\ At(s, i) \in {"-", "*"}
       /\ At(s, i + 1) = " "
       /\ At(s, i + 2) \notin {"", "\n"}
    THEN i + 2 ELSE 0

\* where (.+) starts in r'^\d+\. (.+)$', re.MULTILINE
TtsNumberedStart(s, i) ==
    LET d == RunEnd(Digits, s, i)
    IN  IF /\ AtLineStart(s, i)
           /\ d >= i
           /\ At(s, d + 1) = "."
           /\ At(s, d + 2) = " "
           /\ At(s, d + 3) \notin {"", "\n"}
        THEN d + 3 ELSE 0

\* the end of the line that holds the item, 0 when start is 0
ItemEnd(s, start) == IF start = 0 THEN 0 ELSE RunEndNot({"\n"}, s, start)

\* the dict abbreviations, lines 97-118, in its iteration order
TtsAbbreviations == <<
    <<<<"M", "C", "P">>, <<"M", "-", "C", "-", "P">>>>,
    <<<<"A", "P", "I">>, <<"A", "-", "P", "-", "I">>>>,
    <<<<"A", "P", "I", "s">>, <<"A", "-", "P", "-", "I", "s">>>>,
    <<<<"S", "S", "E">>, <<"S", "-", "S", "-", "E">>>>,
    <<<<"S", "T", "D", "I", "O">>, <<"s", "t", "a", "n", "d", "a", "r", "d", " ", "I", "-", "O">>>>,
    <<<<"C", "L", "I">>, <<"c", "o", "m", "m", "a", "n", "d", " ", "l", "i", "n", "e", " ", "i", "n", "t", "e", "r", "f", "a", "c", "e">>>>,
    <<<<"J", "S", "O", "N">>, <<"J", "-", "S", "O", "N">>>>,
    <<<<"H", "T", "T", "P">>, <<"H", "-", "T", "-", "T", "-", "P">>>>,
    <<<<"H", "T", "T", "P", "S">>, <<"H", "-", "T", "-", "T", "-", "P", "-", "S">>>>,
    <<<<"U", "R", "L">>, <<"U", "-", "R", "-", "L">>>>,
    <<<<"U", "R", "L", "s">>, <<"U", "-", "R", "-", "L", "s">>>>,
    <<<<"S", "D", "K">>, <<"S", "-", "D", "-", "K">>>>,
    <<<<"S", "D", "K", "s">>, <<"S", "-", "D", "-", "K", "s">>>>,
    <<<<"L", "L", "M">>, <<"L", "-", "L", "-", "M">>>>,
    <<<<"L", "L", "M", "s">>, <<"L", "-", "L", "-", "M", "s">>>>,
    <<<<"A", "I">>, <<"A", "-", "I">>>>,
    <<<<"v", "s">>, <<"v", "e", "r", "s", "u", "s">>>>,
    <<<<"e", ".", "g", ".">>, <<"f", "o", "r", " ", "e", "x", "a", "m", "p", "l", "e">>>>,
    <<<<"i", ".", "e", ".">>, <<"t", "h", "a", "t", " ", "i", "s">>>>,
    <<<<"e", "t", "c", ".">>, <<"a", "n", "d", " ", "s", "o", " ", "o", "n">>>>
>>

\* the key abbr read as a regular expression stands at i: a period of the
\* key is the metacharacter that matches any character but a newline, every
\* other character of the key matches itself
KeyRegexAt(s, i, abbr) ==
    /\ i >= 1
    /\ i + Len(abbr) - 1 <= Len(s)
    /\ \A k \in 1..Len(abbr) :
           IF abbr[k] = "." THEN s[i + k - 1] # "\n" ELSE s[i + k - 1] = abbr[k]

\* line 122: rf'\b{abbr}\b', the key not escaped
TtsAbbrevEnd(s, i, abbr) ==
    IF /\ KeyRegexAt(s, i, abbr)
       /\ WordBoundary(s, i)
       /\ WordBoundary(s, i + Len(abbr))
    THEN i + Len(abbr) - 1 ELSE 0

\* the literal of text.replace('[pause]', ''), line 129
PauseEnd(s, i) == IF HasAt(s, i, Pause) THEN i + Len(Pause) - 1 ELSE 0

\* where the match of pattern p of format_for_tts_simple that starts at k
\* ends, 0 when there is none; the patterns of lines 72 and 87 are those of
\* InlineCodeEnd and LinkEnd
TtsMatchEnd(p, s, k) ==
    CASE p.re = "fence"        -> TtsFenceEnd(s, k)
      [] p.re = "inlinecode"   -> InlineCodeEnd(s, k)
      [] p.re = "h1"           -> TtsHeadingEnd(s, k, 1)
      [] p.re = "h2"           -> TtsHeadingEnd(s, k, 2)
      [] p.re = "h3"           -> TtsHeadingEnd(s, k, 3)
      [] p.re = "h4"           -> TtsHeadingEnd(s, k, 4)
      [] p.re = "bold"         -> LazySpanEnd(s, k, "*", 2)
      [] p.re = "italic"       -> LazySpanEnd(s, k, "*", 1)
      [] p.re = "bold_"        -> LazySpanEnd(s, k, "_", 2)
      [] p.re = "italic_"      -> LazySpanEnd(s, k, "_", 1)
      [] p.re = "link"         -> LinkEnd(s, k)
      [] p.re = "image"        -> TtsImageEnd(s, k)
      [] p.re = "bullet"       -> ItemEnd(s, TtsBulletStart(s, k))
      [] p.re = "numbered"     -> ItemEnd(s, TtsNumberedStart(s, k))
      [] p.re = "abbreviation" -> TtsAbbrevEnd(s, k, p.key)
      [] p.re = "newlines"     -> LongRunEnd(s, k, "\n", 3)
      [] p.re = "pause"        -> PauseEnd(s, k)

\* what the match k..e of pattern p is replaced by
TtsReplacement(p, s, k, e) ==
    CASE p.re = "fence"        -> CodeOmitted
      [] p.re = "inlinecode"   -> Inner(s, k, e, 1)
      [] p.re = "h1"           -> SpokenHeading(s, k, e, 1)
      [] p.re = "h2"           -> SpokenHeading(s, k, e, 2)
      [] p.re = "h3"           -> SpokenHeading(s, k, e, 3)
      [] p.re = "h4"           -> SpokenHeading(s, k, e, 4)
      [] p.re = "bold"         -> Inner(s, k, e, 2)
      [] p.re = "italic"       -> Inner(s, k, e, 1)
      [] p.re = "bold_"        -> Inner(s, k, e, 2)
      [] p.re = "italic_"      -> Inner(s, k, e, 1)
      [] p.re = "link"         -> LinkText(s, k, e)
      [] p.re = "image"        -> ImageText(s, k, e)
      [] p.re = "bullet"       -> SubSeq(s, TtsBulletStart(s, k), e) \o <<".">>
      [] p.re = "numbered"     -> SubSeq(s, TtsNumberedStart(s, k), e) \o <<".">>
      [] p.re = "abbreviation" -> p.to
      [] p.re = "newlines"     -> <<"\n", "\n">>
      [] p.re = "pause"        -> <<>>

\* re.sub(p, repl, s) and s.replace(old, new), the scan from index i on
RECURSIVE TtsSub(_, _, _)
TtsSub(p, s, i) ==
    LET ends == [k \in i..Len(s) |-> TtsMatchEnd(p, s, k)]
        starts == {k \in i..Len(s) : ends[k] >= k}
    IN  IF starts = {} THEN SubSeq(s, i, Len(s))
        ELSE SubSeq(s, i, SetMin(starts) - 1)
                 \o TtsReplacement(p, s, SetMin(starts), ends[SetMin(starts)])
                 \o TtsSub(p, s, ends[SetMin(starts)] + 1)

\* the statements of lines 64-129 in the order of the function; the loop of
\* lines 120-122 is one statement per entry of the table
TtsProgram ==
    <<Re("fence"), Re("inlinecode"), Re("h1"), Re("h2"), Re("h3"), Re("h4"),
      Re("bold"), Re("italic"), Re("bold_"), Re("italic_"), Re("link"), Re("image"),
      Re("bullet"), Re("numbered")>>
    \o [k \in 1..Len(TtsAbbreviations) |-> ReAbbrev(TtsAbbreviations[k])]
    \o <<Re("newlines"), Re("pause")>>

(***************************************************************************)
(* SpecTts: format_for_tts_simple as a process; t_text is its local        *)
(* variable text and t_pc the statement it is at.                          *)
(***************************************************************************)
\* words that no key of the table spells, keys of the table, and a space
WordTokens ==
    {<<"i", "t", "e", "m">>, <<"e", "g", "g", "s">>, <<"e", "t", "c", "h">>, <<"K", "E", "Y">>, <<"A", "P", "I">>, <<"e", ".", "g", ".">>, <<" ">>, <<",">>}

WordDocs == {Flatten(ts) : ts \in TokenSeqs(WordTokens)}

\* images with and without alternative text, a link, a word and a space
Image(alt) == <<"!", "[">> \o alt \o <<"]", "(", "u", ")">>

ImageTokens ==
    {Image(<<"a">>), Image(<<>>), <<"[", "l", "]", "(", "u", ")">>, <<"w">>, <<" ">>, <<"\n">>}

ImageDocs == {Flatten(ts) : ts \in TokenSeqs(ImageTokens)}

\* headings, emphasis, list items and code around a word
StructureTokens ==
    {<<"#", " ", "T", "\n">>, <<"#", "#", " ", "T", "\n">>, <<"-", " ", "w", "\n">>, <<"1", ".", " ", "w", "\n">>,
     <<"*", "*", "b", "*", "*">>, <<"_", "i", "_">>, <<Backtick, "c", Backtick>>,
     Fence \o <<"\n", "k", "\n">> \o Fence \o <<"\n">>, <<"\n">>}

StructureDocs == {Flatten(ts) : ts \in TokenSeqs(StructureTokens)}

TtsDocuments == WordDocs \cup ImageDocs \cup StructureDocs

InitTts ==
    /\ ChunkIdle /\ GenIdle /\ MainIdle /\ MdIdle /\ ChapIdle /\ PreIdle
    /\ t_in \in TtsDocuments
    /\ t_text = t_in
    /\ t_pc = 1

\* the position after the return
TtsAfterReturn == Len(TtsProgram) + 2

\* lines 64-129: the statement t_pc of TtsProgram
TtsSubstitute ==
    /\ t_pc \in 1..Len(TtsProgram)
    /\ t_text' = TtsSub(TtsProgram[t_pc], t_text, 1)
    /\ t_pc' = t_pc + 1
    /\ UNCHANGED t_in
    /\ UNCHANGED <<chunkVars, genVars, mainVars, mdVars, chapVars, preVars>>

\* line 131
TtsStripAndReturn ==
    /\ t_pc = Len(TtsProgram) + 1
    /\ t_text' = Strip(t_text)
    /\ t_pc' = TtsAfterReturn
    /\ UNCHANGED t_in
    /\ UNCHANGED <<chunkVars, genVars, mainVars, mdVars, chapVars, preVars>>

NextTts ==
    \/ TtsSubstitute
    \/ TtsStripAndReturn

SpecTts == InitTts /\ [][NextTts]_vars

(***************************************************************************)
(* Properties of format_for_tts_simple.                                    *)
(***************************************************************************)
\* the call has returned; t_text is what it returned
TtsReturned == t_pc = TtsAfterReturn

\* words of the documents that are not keys of the table
NonKeyWords == {<<"i", "t", "e", "m">>, <<"e", "g", "g", "s">>, <<"e", "t", "c", "h">>, <<"K", "E", "Y">>}

\* C25: an abbreviation is expanded only where that exact abbreviation
\* stands as a standalone word: every word of the input that is not one of
\* the table keys, such as item, eggs or etch, is left unchanged.
C25_OnlyKeysExpanded ==
    (TtsReturned /\ t_in \in WordDocs) =>
        \A w \in NonKeyWords : Count(t_text, w) = Count(t_in, w)

\* C26: every image reference ![alt](url) becomes [Image: alt]: after the
\* link pass and the image pass the URL is gone and no residue !alt of an
\* image is left.
C26_ImagesDescribed ==
    (TtsReturned /\ t_in \in ImageDocs) =>
        /\ Count(t_text, <<"[", "I", "m", "a", "g", "e", ":", " ", "a", "]">>) = Count(t_in, Image(<<"a">>))
        /\ Count(t_text, <<"u">>) = 0
        /\ Count(t_text, <<"!", "a">>) = 0

\* C29: for every combination of the phase flags, the completion summary of
\* main lists a PDF output only if the PDF conversion was executed in this
\* invocation, and an audiobook output only if the audiobook generation was,
\* also when --book is combined with --pdf or --audio.
C29_SummaryListsWhatRan ==
    /\ "PDF" \in m_out => "pdf" \in m_ran
    /\ "Audiobook" \in m_out => "audio" \in m_ran

(***************************************************************************)
(* strip_preamble of src/src/pipeline.py, lines 25-81.                     *)
(***************************************************************************)
UpperCase == <<"A", "B", "C", "D", "E", "F", "G", "H", "I", "J", "K", "L", "M", "N", "O", "P", "Q", "R", "S", "T", "U", "V", "W", "X", "Y", "Z">>
LowerCase == <<"a", "b", "c", "d", "e", "f", "g", "h", "i", "j", "k", "l", "m", "n", "o", "p", "q", "r", "s", "t", "u", "v", "w", "x", "y", "z">>

\* str.lower(), one character
LowerChar(c) ==
    IF \E k \in 1..Len(UpperCase) : UpperCase[k] = c
    THEN LowerCase[CHOOSE k \in 1..Len(UpperCase) : UpperCase[k] = c]
    ELSE c

\* str.lower()
Lower(s) == [k \in 1..Len(s) |-> LowerChar(s[k])]

\* preamble_patterns, lines 35-51: each pattern is ^, an alternation of
\* literal words and, for the second pattern, \b, for the sixth, [\s,!]
preamble_patterns == <<
    [words |-> {<<"o", "k", "a", "y">>, <<"o", "k">>, <<"s", "u", "r", "e">>, <<"a", "l", "r", "i", "g", "h", "t">>, <<"c", "e", "r", "t", "a", "i", "n", "l", "y">>, <<"a", "b", "s", "o", "l", "u", "t", "e", "l", "y">>},
     next |-> "any"],
    [words |-> {<<"w", "e", "l", "c", "o", "m", "e">>, <<"h", "e", "l", "l", "o">>, <<"h", "i">>, <<"h", "e", "y">>},
     next |-> "boundary"],
    [words |-> {<<"i", "n", " ", "t", "h", "i", "s", " ", "c", "h", "a", "p", "t", "e", "r">>, <<"l", "e", "t", "'", "s">>, <<"w", "e", "'", "l", "l">>, <<"w", "e", " ", "w", "i", "l", "l">>, <<"i", " ", "w", "i", "l", "l">>, <<"i", "'", "l", "l">>},
     next |-> "any"],
    [words |-> {<<"h", "e", "r", "e", " ", "i", "s">>, <<"h", "e", "r", "e", "'", "s">>, <<"b", "e", "l", "o", "w", " ", "i", "s">>},
     next |-> "any"],
    [words |-> {<<"t", "h", "i", "s", " ", "c", "h", "a", "p", "t", "e", "r">>, <<"t", "h", "e", " ", "f", "o", "l", "l", "o", "w", "i", "n", "g">>},
     next |-> "any"],
    [words |-> {<<"g", "r", "e", "a", "t">>, <<"p", "e", "r", "f", "e", "c", "t">>, <<"e", "x", "c", "e", "l", "l", "e", "n", "t">>},
     next |-> "separator"],
    [words |-> {<<"g", "e", "t", " ", "r", "e", "a", "d", "y">>, <<"r", "e", "a", "d", "y", " ", "t", "o">>, <<"p", "r", "e", "p", "a", "r", "e", "d", " ", "t", "o">>},
     next |-> "any"],
    [words |-> {<<"h", "a", "v", "e", " ", "y", "o", "u", " ", "e", "v", "e", "r">>, <<"d", "i", "d", " ", "y", "o", "u", " ", "k", "n", "o", "w">>},
     next |-> "any"],
    [words |-> {<<"i", "m", "a", "g", "i", "n", "e">>, <<"p", "i", "c", "t", "u", "r", "e", " ", "t", "h", "i", "s">>},
     next |-> "any"],
    [words |-> {<<"b", "e", "f", "o", "r", "e", " ", "w", "e">>, <<"a", "s", " ", "w", "e">>},
     next |-> "any"],
    [words |-> {<<"n", "o", "w", " ", "t", "h", "a", "t">>, <<"s", "o", " ", "f", "a", "r">>},
     next |-> "any"],
    [words |-> {<<"a", "r", "e", " ", "y", "o", "u">>, <<"d", "o", " ", "y", "o", "u">>},
     next |-> "any"],
    [words |-> {<<"g", "l", "a", "d">>, <<"h", "a", "p", "p", "y">>, <<"p", "l", "e", "a", "s", "e", "d">>, <<"e", "x", "c", "i", "t", "e", "d">>},
     next |-> "any"],
    [words |-> {<<"*", "*", "w", "e", "l", "c", "o", "m", "e">>},
     next |-> "any"],
    [words |-> {<<"_", "w", "e", "l", "c", "o", "m", "e">>},
     next |-> "any"]
>>

\* re.match(p, stripped)
PatternMatches(p, stripped) ==
    \E w \in p.words :
        /\ IsPrefix(w, stripped)
        /\ p.next = "boundary" => ~IsWordChar(At(stripped, Len(w) + 1))
        /\ p.next = "separator" => At(stripped, Len(w) + 1) \in {" ", "\n", ",", "!"}

\* line 67: any(re.match(p, stripped) for p in preamble_patterns)
is_preamble(stripped) ==
    \E k \in 1..Len(preamble_patterns) : PatternMatches(preamble_patterns[k], stripped)

\* as LineKind, a line that is neither blank, heading nor preamble taken
\* for preamble
LineKind_ContentSkipped(line) ==
    IF Strip(line) = <<>> THEN "blank"
    ELSE IF Strip(line)[1] = "#" THEN "heading"
    ELSE "preamble"

\* lines 56-67: what the loop takes the line for
LineKind(line) ==
    IF Strip(line) = <<>> THEN "blank"
    ELSE IF Strip(line)[1] = "#" THEN "heading"
    ELSE IF is_preamble(Lower(Strip(line))) THEN "preamble"
    ELSE "content"

\* the loop of lines 55-75 from line i on (lines are numbered from 1);
\* the value is start_idx + 1
RECURSIVE ScanLines(_, _, _)
ScanLines(lines, i, start) ==
    IF i > Len(lines) THEN start
    ELSE IF LineKind(lines[i]) = "blank" THEN ScanLines(lines, i + 1, start)
    ELSE IF LineKind(lines[i]) \in {"heading", "content"} THEN i
    ELSE ScanLines(lines, i + 1, i + 1)

\* str.lstrip('\n')
LStripNewlines(s) ==
    LET keep == {k \in 1..Len(s) : s[k] # "\n"}
    IN  IF keep = {} THEN <<>> ELSE SubSeq(s, SetMin(keep), Len(s))

strip_preamble(content) ==
    LET lines == SplitLines(content)
    IN  LStripNewlines(Join(SubSeq(lines, ScanLines(lines, 1, 1), Len(lines)), <<"\n">>))

(***************************************************************************)
(* SpecPreamble: strip_preamble called on a chapter text of at most        *)
(* MaxTokens lines, and called again on what it returned.                  *)
(***************************************************************************)
\* empty and blank lines, lines that match a pattern, lines that almost do
\* (Hint, Great), headings and text
LineTokens ==
    {<<>>, <<" ">>, <<"O", "K">>, <<"H", "i", "!">>, <<"H", "i", "n", "t">>, <<"G", "r", "e", "a", "t", ",", " ", "x">>, <<"G", "r", "e", "a", "t">>, <<"*", "*", "W", "e", "l", "c", "o", "m", "e">>,
     <<"#", " ", "T">>, <<" ", "#", "#", " ", "S">>, <<"t", "e", "x", "t">>}

Chapters == {Join(ts, <<"\n">>) : ts \in TokenSeqs(LineTokens)}

InitPreamble ==
    /\ ChunkIdle /\ GenIdle /\ MainIdle /\ MdIdle /\ ChapIdle /\ TtsIdle
    /\ p_in \in Chapters
    /\ p_out = <<>>
    /\ p_pc = "call"

\* lines 451-455 of run_chapter_writing_structured: content = strip_preamble(content)
CallStripPreamble ==
    /\ p_pc = "call"
    /\ p_out' = <<strip_preamble(p_in)>>
    /\ p_pc' = "returned"
    /\ UNCHANGED p_in
    /\ UNCHANGED <<chunkVars, genVars, mainVars, mdVars, chapVars, ttsVars>>

\* strip_preamble called with the text it returned
CallStripPreambleAgain ==
    /\ p_pc = "returned"
    /\ Len(p_out) = 1
    /\ p_out' = Append(p_out, strip_preamble(p_out[1]))
    /\ UNCHANGED <<p_in, p_pc>>
    /\ UNCHANGED <<chunkVars, genVars, mainVars, mdVars, chapVars, ttsVars>>

NextPreamble ==
    \/ CallStripPreamble
    \/ CallStripPreambleAgain

SpecPreamble == InitPreamble /\ [][NextPreamble]_vars

(***************************************************************************)
(* Properties of strip_preamble.                                           *)
(***************************************************************************)
IsSuffix(t, s) == Len(t) <= Len(s) /\ SubSeq(s, Len(s) - Len(t) + 1, Len(s)) = t

\* the part of p_in that the first call dropped, when the result is a suffix
Dropped == SubSeq(p_in, 1, Len(p_in) - Len(p_out[1]))

IsHeadingLine(line) == Strip(line) # <<>> /\ Strip(line)[1] = "#"

\* the text from the first heading line of s on; <<>> when s has no heading
FromFirstHeading(s) ==
    LET lines == SplitLines(s)
        hs == {k \in 1..Len(lines) : IsHeadingLine(lines[k])}
    IN  IF hs = {} THEN <<>>
        ELSE Join(SubSeq(lines, SetMin(hs), Len(lines)), <<"\n">>)

\* C30: strip_preamble returns a suffix of its input and removes neither a
\* heading line nor a line after the first heading; what it drops are blank
\* lines and lines that match a preamble pattern; applied twice it gives the
\* result of applying it once.
C30_StripPreamble ==
    p_out # <<>> =>
        /\ IsSuffix(p_out[1], p_in)
        /\ IsSuffix(FromFirstHeading(p_in), p_out[1])
        /\ \A k \in 1..Len(SplitLines(Dropped)) :
               \/ IsBlank(SplitLines(Dropped)[k])
               \/ is_preamble(Lower(Strip(SplitLines(Dropped)[k])))
        /\ Len(p_out) = 2 => p_out[2] = p_out[1]

\* a preamble line is dropped, the heading after it and a line after the
\* heading that matches a pattern are kept, and the second call has returned
C30_Witness ==
    /\ Len(p_out) = 2
    /\ p_in = <<"H", "i", "!", "\n", "#", " ", "T", "\n", "O", "K">>
    /\ p_out[1] = <<"#", " ", "T", "\n", "O", "K">>

====
